---- MODULE Spec2Model ----
(***************************************************************************)
(* A model of mylittletracker: the CLI boundary (cli.py), the transport    *)
(* retry loop and the language resolver (utils.py), the datetime parsers   *)
(* and the per-carrier normalize functions (providers/*.py).               *)
(*                                                                         *)
(* Python strings are modelled as sequences of one-character strings, so   *)
(* that strip / replace / lower / slicing / strptime are computed the way  *)
(* the code computes them.  None is a distinguished value outside the      *)
(* strings.  A call that can raise returns a record [exc, val]: exc is     *)
(* "none" for a normal return and the exception class name otherwise.      *)
(***************************************************************************)
EXTENDS Integers, Sequences, FiniteSets, TLC

VARIABLES
    \* ---- normalize_language (utils.py) ----
    lg_pc,          \* "init" | "done"
    lg_language,    \* the language argument (None or a string)
    lg_provider,    \* the provider argument (None or a string)
    lg_env,         \* <<MLT_DEFAULT_LANGUAGE, MYLITTLETRACKER_DEFAULT_LANGUAGE, LANG, LC_ALL>>
    lg_result,      \* [exc, val]; val = <<normalized, normalized_from>>
    \* ---- cmd_track (cli.py) ----
    cli_pc,         \* "start" | "tracked" | "noted" | "printed" | "returned" | "raised" | "idle"
    cli_args,       \* [carrier, language, strict, json, verbose]
    cli_env,        \* [DHL_API_KEY, GLS_CLIENT_ID, GLS_CLIENT_SECRET, lang]
    cli_outcome,    \* what the tracker call did: [kind, exc, resp]
    cli_lang,       \* <<lang_norm, lang_from>>
    cli_response,   \* tracking_response: NoResponse or a TrackingResponse
    cli_error,      \* error_occurred
    cli_stdout,     \* what cmd_track has printed, in order
    cli_exit,       \* the returned exit code, -1 while none was returned
    cli_exc,        \* the exception that left cmd_track, NoExc when none did
    \* ---- get_with_retries / async_get_with_retries (utils.py) ----
    rt_pc,          \* "loop" (at the while test) | "returned" | "raised" | "idle"
    rt_async,       \* TRUE for async_get_with_retries
    rt_max_attempts,\* the max_attempts argument
    rt_attempt,     \* attempt
    rt_last_exc,    \* last_exc: "None" or the class of the last transport error
    rt_requests,    \* the outcome of every request issued so far, in order
    rt_sleeps,      \* the backoff sleeps so far, in units of backoff_base
    rt_result,      \* [exc, status, attempt]: what the call returned or raised
    \* ---- one call of a datetime parser ----
    ps_pc,          \* "call" | "done" | "idle"
    ps_fn,          \* the parser called
    ps_arg,         \* its argument (the date string)
    ps_arg2,        \* the time string of _parse_correos_datetime, None for the others
    ps_clock,       \* what the wall clock shows during the call
    ps_result,      \* what the call returned or raised
    \* ---- one normalization of a carrier's body ----
    nm_pc,          \* "call" | "done" | "again" | "idle"
    nm_carrier,     \* the adapter
    nm_raw,         \* the body the carrier sent
    nm_clock,       \* what the wall clock shows when the call starts
    nm_result,      \* [exc, resp]: what the call returned or raised
    nm_clock2,      \* what the wall clock shows when the same body is normalized again
    nm_again,       \* [exc, resp]: what the second call returned or raised
    \* ---- one status text handed to one text classifier ----
    tx_pc,          \* "call" | "done" | "variant" | "idle"
    tx_fn,          \* the classifier called
    tx_text,        \* the status text of the latest event
    tx_result,      \* the ShipmentStatus returned, "none" before the call
    tx_text2,       \* the same text in another letter case or without its accents
    tx_result2,     \* the ShipmentStatus returned for tx_text2
    \* ---- tracking invocations in flight: track / track_async of the adapters ----
    tk_env,         \* [DHL_API_KEY, GLS_CLIENT_ID, GLS_CLIENT_SECRET]
    tk_inv,         \* per invocation: [carrier, variant, pc, attempt, last_exc, log, open, result]
    tk_client_open  \* the caller's AsyncClient is open

lgVars == <<lg_pc, lg_language, lg_provider, lg_env, lg_result>>
cliVars == <<cli_pc, cli_args, cli_env, cli_outcome, cli_lang, cli_response,
             cli_error, cli_stdout, cli_exit, cli_exc>>

rtVars == <<rt_pc, rt_async, rt_max_attempts, rt_attempt, rt_last_exc, rt_requests,
            rt_sleeps, rt_result>>

psVars == <<ps_pc, ps_fn, ps_arg, ps_arg2, ps_clock, ps_result>>

nmVars == <<nm_pc, nm_carrier, nm_raw, nm_clock, nm_result, nm_clock2, nm_again>>

txVars == <<tx_pc, tx_fn, tx_text, tx_result, tx_text2, tx_result2>>

tkVars == <<tk_env, tk_inv, tk_client_open>>

vars == <<lgVars, cliVars, rtVars, psVars, nmVars, txVars, tkVars>>

-----------------------------------------------------------------------------
(* Python values                                                           *)

None == <<"None">>

\* Python truthiness of an Optional[str]: None and "" are falsy.
Truthy(s) == s # None /\ s # <<>>

Ret(v) == [exc |-> "none", val |-> v]
Raise(e) == [exc |-> e, val |-> None]
Raised(r) == r.exc # "none"

\* an accented letter is written as the letter followed by ' or ~, and is one
\* character of the string
Lowers == <<"a","b","c","d","e","f","g","h","i","j","k","l","m",
            "n","o","p","q","r","s","t","u","v","w","x","y","z",
            "a'","e'","i'","o'","u'","n~">>
Uppers == <<"A","B","C","D","E","F","G","H","I","J","K","L","M",
            "N","O","P","Q","R","S","T","U","V","W","X","Y","Z",
            "A'","E'","I'","O'","U'","N~">>

IsLowerC(c) == \E i \in DOMAIN Lowers : Lowers[i] = c
IsUpperC(c) == \E i \in DOMAIN Uppers : Uppers[i] = c
LowerC(c) == IF IsUpperC(c) THEN Lowers[CHOOSE i \in DOMAIN Uppers : Uppers[i] = c] ELSE c
UpperC(c) == IF IsLowerC(c) THEN Uppers[CHOOSE i \in DOMAIN Lowers : Lowers[i] = c] ELSE c

\* str.lower(), str.upper()
Lower(s) == [i \in DOMAIN s |-> LowerC(s[i])]
Upper(s) == [i \in DOMAIN s |-> UpperC(s[i])]

IsSpaceC(c) == c \in {" ", "\t", "\n"}

\* s[i:j] with Python's clamping, for 0 <= i, 0 <= j (0-based, j exclusive)
Slice(s, i, j) ==
    LET hi == IF j > Len(s) THEN Len(s) ELSE j
    IN  IF i >= hi THEN <<>> ELSE SubSeq(s, i + 1, hi)

\* s[i:]
SliceFrom(s, i) == Slice(s, i, Len(s))

RECURSIVE LStrip(_)
LStrip(s) == IF s # <<>> /\ IsSpaceC(Head(s)) THEN LStrip(Tail(s)) ELSE s

RECURSIVE RStrip(_)
RStrip(s) == IF s # <<>> /\ IsSpaceC(s[Len(s)]) THEN RStrip(SubSeq(s, 1, Len(s) - 1)) ELSE s

\* str.strip()
Strip(s) == RStrip(LStrip(s))

\* str.replace(a, b) for one-character a and b
ReplaceC(s, a, b) == [i \in DOMAIN s |-> IF s[i] = a THEN b ELSE s[i]]

\* `c in s` for a one-character c
HasC(s, c) == \E i \in DOMAIN s : s[i] = c

\* s.split(c, 1)[0]: the part before the first c (all of s when c is absent)
SplitFirst(s, c) ==
    IF HasC(s, c)
    THEN SubSeq(s, 1, (CHOOSE i \in DOMAIN s : s[i] = c /\ \A j \in 1..(i-1) : s[j] # c) - 1)
    ELSE s

-----------------------------------------------------------------------------
(* utils.normalize_language                                                *)

s_en == <<"e","n">>
s_es == <<"e","s">>
s_de == <<"d","e">>
s_fr == <<"f","r">>
s_it == <<"i","t">>
s_nl == <<"n","l">>
s_en_US == <<"e","n","_","U","S">>
s_nl_NL == <<"n","l","_","N","L">>
s_de_DE == <<"d","e","_","D","E">>
s_fr_FR == <<"f","r","_","F","R">>
s_it_IT == <<"i","t","_","I","T">>
s_es_ES == <<"e","s","_","E","S">>
s_xx_ZZ == <<"x","x","-","Z","Z">>

\* allowed = {"en", "es", "de", "fr", "it", "nl"}
allowed == {s_en, s_es, s_de, s_fr, s_it, s_nl}

\* the DPD mapping dict of normalize_language, as a set of <<key, value>> pairs
dpd_mapping == { <<s_en, s_en_US>>, <<s_nl, s_nl_NL>>, <<s_de, s_de_DE>>,
                 <<s_fr, s_fr_FR>>, <<s_it, s_it_IT>>, <<s_es, s_es_ES>> }

DictHas(d, k) == \E p \in d : p[1] = k
DictValues(d) == { p[2] : p \in d }
\* d[k]: raises KeyError when k is no key of d
DictIndex(d, k) == IF DictHas(d, k) THEN Ret((CHOOSE p \in d : p[1] = k)[2]) ELSE Raise("KeyError")

\* the language a single environment value yields, or None when it is skipped
EnvLang2(val) ==
    IF ~Truthy(val) THEN None
    ELSE LET v == Strip(val) IN
         IF v = <<>> THEN None
         ELSE LET v2 == ReplaceC(v, "-", "_")
                  lang2 == Lower(SplitFirst(SplitFirst(v2, "_"), "."))
              IN  IF lang2 \in allowed THEN lang2 ELSE None

RECURSIVE DetectFrom(_, _)
DetectFrom(env, i) ==
    IF i > Len(env) THEN s_en
    ELSE IF EnvLang2(env[i]) # None THEN EnvLang2(env[i])
    ELSE DetectFrom(env, i + 1)

\* _detect_default_lang()
DetectDefaultLang(env) == DetectFrom(env, 1)

\* split_lang(s) -> <<lang, region-or-None>>
split_lang(s) ==
    LET s2 == ReplaceC(s, "-", "_") IN
    IF HasC(s2, "_") /\ Len(s2) >= 5
    THEN <<Lower(Slice(s2, 0, 2)), Upper(Slice(s2, 3, 5))>>
    ELSE <<Lower(Slice(s2, 0, 2)), None>>

\* the fallback when the language l is not in `allowed`: mapping[default_two_letter]
DpdUnrecognized(default_two_letter) == DictIndex(dpd_mapping, default_two_letter)

\* the `if prov == "dpd"` branch
NormalizeDpd(lang, default_two_letter) ==
    LET sl == split_lang(lang)
        l == sl[1]
        r == sl[2]
        candidate == l \o <<"_">> \o r
        first == IF Truthy(r) /\ candidate \in DictValues(dpd_mapping) THEN candidate ELSE None
        second == IF Truthy(first) THEN Ret(first)
                  ELSE IF l \in allowed
                       THEN (IF DictHas(dpd_mapping, l) THEN DictIndex(dpd_mapping, l) ELSE Ret(None))
                       ELSE DpdUnrecognized(default_two_letter)
    IN  IF Raised(second) THEN second
        ELSE IF second.val = None THEN Raise("AttributeError")   \* None.lower()
        ELSE Ret(<<second.val, IF Lower(second.val) # Lower(lang) THEN lang ELSE None>>)

\* (l if l in allowed else default_two_letter)
TwoLetter(lang, default_two_letter) ==
    LET l == split_lang(lang)[1] IN IF l \in allowed THEN l ELSE default_two_letter

\* the `if prov == "gls"` branch
NormalizeGls(lang, default_two_letter) ==
    LET normalized == Upper(TwoLetter(lang, default_two_letter))
    IN  Ret(<<normalized, IF normalized # lang THEN lang ELSE None>>)

\* the `if prov == "dhl"` branch
NormalizeDhl(lang, default_two_letter) ==
    LET normalized == Lower(TwoLetter(lang, default_two_letter))
    IN  Ret(<<normalized, IF normalized # lang THEN lang ELSE None>>)

\* Correos/CTT and others
NormalizeOther(lang, default_two_letter) ==
    LET normalized == Upper(TwoLetter(lang, default_two_letter))
    IN  Ret(<<normalized, IF normalized # lang THEN lang ELSE None>>)

s_dpd == <<"d","p","d">>
s_gls == <<"g","l","s">>
s_dhl == <<"d","h","l">>
s_ctt == <<"c","t","t">>
s_correos == <<"c","o","r","r","e","o","s">>

normalize_language(language, provider, env) ==
    LET default_two_letter == DetectDefaultLang(env)
        lang == Strip(IF Truthy(language) THEN language ELSE default_two_letter)
        prov == Lower(IF Truthy(provider) THEN provider ELSE <<>>)
    IN  IF prov = s_dpd THEN NormalizeDpd(lang, default_two_letter)
        ELSE IF prov = s_gls THEN NormalizeGls(lang, default_two_letter)
        ELSE IF prov = s_dhl THEN NormalizeDhl(lang, default_two_letter)
        ELSE NormalizeOther(lang, default_two_letter)

LgIdle ==
    /\ lg_pc = "idle"
    /\ lg_language = None
    /\ lg_provider = None
    /\ lg_env = <<None, None, None, None>>
    /\ lg_result = Ret(None)

-----------------------------------------------------------------------------
(* datetime values                                                         *)

\* A datetime: aware (carries a UTC offset) or naive.  day counts the days
\* since 1970-01-01 and sec the second of that day (both in UTC for an aware
\* value, wall-clock for a naive one); us is the microsecond.
DT(aware, day, sec, us) == [aware |-> aware, day |-> day, sec |-> sec, us |-> us]

\* the <<day, second>> the wall clock can show when datetime.now() is called
ClockValues == { <<20341, 36000>>, <<20342, 300>> }

\* datetime.now(): naive local time
NowNaive(clock) == DT(FALSE, clock[1], clock[2], 0)
\* datetime.now(timezone.utc): aware
NowUtc(clock) == DT(TRUE, clock[1], clock[2], 0)

\* what a parser call does: return a datetime, return None, or raise
PRet(dt) == [exc |-> "none", none |-> FALSE, dt |-> dt]
PNone == [exc |-> "none", none |-> TRUE, dt |-> DT(FALSE, 0, 0, 0)]
PRaise(e) == [exc |-> e, none |-> FALSE, dt |-> DT(FALSE, 0, 0, 0)]
PRaised(r) == r.exc # "none"

Digits == <<"0","1","2","3","4","5","6","7","8","9">>
IsDigitC(c) == \E i \in DOMAIN Digits : Digits[i] = c
DigitVal(c) == (CHOOSE i \in DOMAIN Digits : Digits[i] = c) - 1
AllDigits(s) == \A i \in DOMAIN s : IsDigitC(s[i])
InRange(c, lo, hi) == IsDigitC(c) /\ DigitVal(c) >= lo /\ DigitVal(c) <= hi

\* int(s) for a string of digits (other characters, such as the leading
\* space %d admits, are skipped)
RECURSIVE ToInt(_)
ToInt(s) ==
    IF s = <<>> THEN 0
    ELSE LET init == SubSeq(s, 1, Len(s) - 1) IN
         IF IsDigitC(s[Len(s)]) THEN 10 * ToInt(init) + DigitVal(s[Len(s)]) ELSE ToInt(init)

\* s[i] (1-based), "" outside the string
At(s, i) == IF i >= 1 /\ i <= Len(s) THEN s[i] ELSE ""

\* s.endswith(c) for a one-character c
EndsWithC(s, c) == s # <<>> /\ s[Len(s)] = c

\* the calendar
IsLeap(y) == (y % 4 = 0 /\ y % 100 # 0) \/ y % 400 = 0
DaysInMonth(y, m) ==
    IF m = 2 THEN (IF IsLeap(y) THEN 29 ELSE 28)
    ELSE IF m \in {4, 6, 9, 11} THEN 30 ELSE 31

\* days from 1970-01-01 to y-m-d
DaysFromCivil(y, m, d) ==
    LET yy == IF m <= 2 THEN y - 1 ELSE y
        era == yy \div 400
        yoe == yy - era * 400
        mp == IF m > 2 THEN m - 3 ELSE m + 9
        doy == (153 * mp + 2) \div 5 + d - 1
        doe == yoe * 365 + yoe \div 4 - yoe \div 100 + doy
    IN  era * 146097 + doe - 719468

\* datetime(y, mo, d, h, mi, sec, us, tzinfo): ValueError when a field is out
\* of range; an aware value is kept at its UTC instant (off: offset in seconds)
MakeDT(aware, y, mo, d, h, mi, sec, us, off) ==
    IF y < 1 \/ y > 9999 \/ mo < 1 \/ mo > 12 \/ d < 1 \/ d > DaysInMonth(y, mo)
         \/ h > 23 \/ mi > 59 \/ sec > 59
    THEN PRaise("ValueError")
    ELSE LET total == h * 3600 + mi * 60 + sec - off + 2 * 86400
         IN  PRet(DT(aware, DaysFromCivil(y, mo, d) + (total \div 86400) - 2, total % 86400, us))

\* timezone(timedelta(seconds=off)): the offset must be strictly within a day
TzOk(off) == off > -86400 /\ off < 86400

-----------------------------------------------------------------------------
(* datetime.strptime, datetime.fromisoformat                               *)

\* a format: a sequence of directives (%Y %m %d %H %M %S %z), literal
\* characters, and white space
Dir(k) == [k |-> k, c |-> ""]
Lit(c) == [k |-> "lit", c |-> c]
Ws == [k |-> "ws", c |-> " "]

\* the text each directive admits (the regular expressions of _strptime)
TokY(t) == Len(t) = 4 /\ AllDigits(t)
Tokm(t) ==
    \/ Len(t) = 2 /\ ((t[1] = "1" /\ InRange(t[2], 0, 2)) \/ (t[1] = "0" /\ InRange(t[2], 1, 9)))
    \/ Len(t) = 1 /\ InRange(t[1], 1, 9)
Tokd(t) ==
    \/ Len(t) = 2 /\ \/ t[1] = "3" /\ InRange(t[2], 0, 1)
                     \/ InRange(t[1], 1, 2) /\ IsDigitC(t[2])
                     \/ t[1] \in {"0", " "} /\ InRange(t[2], 1, 9)
    \/ Len(t) = 1 /\ InRange(t[1], 1, 9)
TokH(t) ==
    \/ Len(t) = 2 /\ ((t[1] = "2" /\ InRange(t[2], 0, 3)) \/ (InRange(t[1], 0, 1) /\ IsDigitC(t[2])))
    \/ Len(t) = 1 /\ IsDigitC(t[1])
TokM(t) ==
    \/ Len(t) = 2 /\ InRange(t[1], 0, 5) /\ IsDigitC(t[2])
    \/ Len(t) = 1 /\ IsDigitC(t[1])
TokS(t) ==
    \/ Len(t) = 2 /\ ((t[1] = "6" /\ InRange(t[2], 0, 1)) \/ (InRange(t[1], 0, 5) /\ IsDigitC(t[2])))
    \/ Len(t) = 1 /\ IsDigitC(t[1])
\* %z: Z, or [+-]HH[:]MM[[:]SS] (a fraction of a second is not modelled)
Tokz(t) ==
    \/ t = <<"Z">>
    \/ /\ Len(t) >= 5
       /\ t[1] \in {"+", "-"} /\ IsDigitC(t[2]) /\ IsDigitC(t[3])
       /\ LET r == IF t[4] = ":" THEN SliceFrom(t, 4) ELSE SliceFrom(t, 3) IN
          /\ Len(r) >= 2 /\ InRange(r[1], 0, 5) /\ IsDigitC(r[2])
          /\ LET q == SliceFrom(r, 2)
                 q1 == IF q # <<>> /\ q[1] = ":" THEN Tail(q) ELSE q
             IN  q = <<>> \/ (Len(q1) = 2 /\ InRange(q1[1], 0, 5) /\ IsDigitC(q1[2]))

TokOk(k, t) ==
    CASE k = "Y" -> TokY(t) [] k = "m" -> Tokm(t) [] k = "d" -> Tokd(t)
      [] k = "H" -> TokH(t) [] k = "M" -> TokM(t) [] k = "S" -> TokS(t)
      [] k = "z" -> Tokz(t)

NoCaptures == [Y |-> <<>>, m |-> <<>>, d |-> <<>>, H |-> <<>>, M |-> <<>>, S |-> <<>>, z |-> <<>>]

\* the ways one item of the format can match at position p.pos: literals
\* match ignoring case, white space matches one or more blanks
StrpStep(s, item, p) ==
    IF item.k = "lit"
    THEN IF LowerC(At(s, p.pos)) = LowerC(item.c) THEN {[pos |-> p.pos + 1, cap |-> p.cap]} ELSE {}
    ELSE IF item.k = "ws"
    THEN { [pos |-> p.pos + n, cap |-> p.cap] :
             n \in { n \in 1..(Len(s) - p.pos + 1) :
                       \A i \in p.pos..(p.pos + n - 1) : IsSpaceC(s[i]) } }
    ELSE { [pos |-> p.pos + n, cap |-> [p.cap EXCEPT ![item.k] = SubSeq(s, p.pos, p.pos + n - 1)]] :
             n \in { n \in 1..9 : p.pos + n - 1 <= Len(s)
                                   /\ TokOk(item.k, SubSeq(s, p.pos, p.pos + n - 1)) } }

RECURSIVE StrpPaths(_, _, _)
StrpPaths(s, fmt, k) ==
    IF k = 0 THEN {[pos |-> 1, cap |-> NoCaptures]}
    ELSE UNION { StrpStep(s, fmt[k], p) : p \in StrpPaths(s, fmt, k - 1) }

\* -m or m
Signed(neg, m) == IF neg THEN 0 - m ELSE m

\* the seconds of [+-]HHMM[SS]
ZMagnitude(z2) ==
    ToInt(Slice(z2, 1, 3)) * 3600 + ToInt(Slice(z2, 3, 5)) * 60 + ToInt(Slice(z2, 5, 7))

ZResult(ok, off) == [ok |-> ok /\ TzOk(off), aware |-> TRUE, off |-> off]

\* z1 is z without the colon after the hours, colon tells whether it had one;
\* "Inconsistent use of :" is rejected, the colon after the minutes is dropped
ZColons(z, colon, z1) ==
    ZResult(/\ ~(colon /\ Len(z1) > 5 /\ z1[6] # ":")
            /\ (colon \/ Len(z) <= 5 \/ z[6] # ":"),
            Signed(z[1] = "-",
                   ZMagnitude(IF colon /\ Len(z1) > 5 THEN SubSeq(z1, 1, 5) \o SliceFrom(z1, 6)
                              ELSE z1)))

\* the UTC offset a %z text stands for; ok is FALSE for what _strptime
\* rejects ("Inconsistent use of :") and for an offset of a day or more
ZOffset(z) ==
    IF z = <<>> THEN [ok |-> TRUE, aware |-> FALSE, off |-> 0]
    ELSE IF z = <<"Z">> THEN [ok |-> TRUE, aware |-> TRUE, off |-> 0]
    ELSE ZColons(z, z[4] = ":", IF z[4] = ":" THEN SubSeq(z, 1, 3) \o SliceFrom(z, 4) ELSE z)

\* the datetime of the captured fields; a missing year is 1900, a missing
\* month or day is 1
StrptimeFields(cap, z) ==
    IF ~z.ok THEN PRaise("ValueError")
    ELSE MakeDT(z.aware,
                IF cap.Y = <<>> THEN 1900 ELSE ToInt(cap.Y),
                IF cap.m = <<>> THEN 1 ELSE ToInt(cap.m),
                IF cap.d = <<>> THEN 1 ELSE ToInt(cap.d),
                ToInt(cap.H), ToInt(cap.M), ToInt(cap.S), 0, z.off)

StrptimeCaptured(cap) == StrptimeFields(cap, ZOffset(cap.z))

\* full: the ways the whole of the string matches the format
StrptimeMatched(full) ==
    IF full = {} THEN PRaise("ValueError")
    ELSE StrptimeCaptured((CHOOSE p \in full : TRUE).cap)

\* datetime.strptime(s, fmt) for a str s: ValueError unless the whole of s
\* matches and the fields make a date
Strptime(s, fmt) ==
    StrptimeMatched({ p \in StrpPaths(s, fmt, Len(fmt)) : p.pos = Len(s) + 1 })

\* the first format of fmts that parses s, None when none does:
\* `for fmt in (...): try: return datetime.strptime(s, fmt) except Exception: continue`
RECURSIVE FirstStrptime(_, _)
OrNextFormat(r, s, fmts) == IF PRaised(r) THEN FirstStrptime(s, fmts) ELSE r
FirstStrptime(s, fmts) ==
    IF fmts = <<>> THEN PNone
    ELSE OrNextFormat(Strptime(s, Head(fmts)), s, Tail(fmts))

\* _parse_hh_mm_ss_ff: HH[:MM[:SS[.fff[fff]]]]
ParseHhMmSsFf(t) ==
    LET two(i) == Len(t) >= i + 1 /\ IsDigitC(t[i]) /\ IsDigitC(t[i + 1])
        val(i) == ToInt(SubSeq(t, i, i + 1))
        frac == SliceFrom(t, 9)
        fields(h, mi, sec, us) == [ok |-> TRUE, h |-> h, mi |-> mi, sec |-> sec, us |-> us]
        bad == [ok |-> FALSE, h |-> 0, mi |-> 0, sec |-> 0, us |-> 0]
    IN  IF ~two(1) THEN bad
        ELSE IF Len(t) = 2 THEN fields(val(1), 0, 0, 0)
        ELSE IF t[3] # ":" \/ ~two(4) THEN bad
        ELSE IF Len(t) = 5 THEN fields(val(1), val(4), 0, 0)
        ELSE IF t[6] # ":" \/ ~two(7) THEN bad
        ELSE IF Len(t) = 8 THEN fields(val(1), val(4), val(7), 0)
        ELSE IF t[9] # "." \/ ~AllDigits(frac) THEN bad
        ELSE IF Len(frac) = 3 THEN fields(val(1), val(4), val(7), ToInt(frac) * 1000)
        ELSE IF Len(frac) = 6 THEN fields(val(1), val(4), val(7), ToInt(frac))
        ELSE bad

\* tstr.find('-') + 1 or tstr.find('+') + 1: the first '-', else the first '+', else 0
TzPos(t) ==
    LET first(c) == IF HasC(t, c)
                    THEN CHOOSE i \in DOMAIN t : t[i] = c /\ \A j \in 1..(i - 1) : t[j] # c
                    ELSE 0
    IN  IF first("-") > 0 THEN first("-") ELSE first("+")

\* YYYY-MM-DD
IsoDateOk(dstr) ==
    /\ Len(dstr) = 10 /\ AllDigits(SubSeq(dstr, 1, 4)) /\ dstr[5] = "-"
    /\ AllDigits(SubSeq(dstr, 6, 7)) /\ dstr[8] = "-" /\ AllDigits(SubSeq(dstr, 9, 10))

\* the aware value: tz is the parsed offset, off its seconds
IsoZoned(y, mo, d, tm, tzstr, tz, off) ==
    IF Len(tzstr) \notin {5, 8} \/ ~tz.ok \/ ~TzOk(off) THEN PRaise("ValueError")
    ELSE MakeDT(TRUE, y, mo, d, tm.h, tm.mi, tm.sec, tm.us, off)

IsoZone(y, mo, d, tm, tzstr, neg, tz) ==
    IsoZoned(y, mo, d, tm, tzstr, tz, Signed(neg, tz.h * 3600 + tz.mi * 60 + tz.sec))

\* tm is the parsed time of day, tzp the position of the sign of the offset
IsoTime(y, mo, d, tstr, tzp, tm) ==
    IF Len(tstr) < 2 \/ ~tm.ok THEN PRaise("ValueError")
    ELSE IF tzp = 0 THEN MakeDT(FALSE, y, mo, d, tm.h, tm.mi, tm.sec, tm.us, 0)
    ELSE IsoZone(y, mo, d, tm, SliceFrom(tstr, tzp), tstr[tzp] = "-",
                 ParseHhMmSsFf(SliceFrom(tstr, tzp)))

IsoSplit(y, mo, d, tstr, tzp) ==
    IsoTime(y, mo, d, tstr, tzp,
            ParseHhMmSsFf(IF tzp > 0 THEN SubSeq(tstr, 1, tzp - 1) ELSE tstr))

IsoDate(y, mo, d, tstr) ==
    IF tstr = <<>> THEN MakeDT(FALSE, y, mo, d, 0, 0, 0, 0, 0)
    ELSE IsoSplit(y, mo, d, tstr, TzPos(tstr))

\* datetime.fromisoformat(s) for a str s, as CPython 3.7 to 3.10 define it:
\* YYYY-MM-DD[*HH[:MM[:SS[.fff[fff]]]][+HH:MM[:SS]]]
FromIsoFormat(s) ==
    IF ~IsoDateOk(Slice(s, 0, 10)) THEN PRaise("ValueError")
    ELSE IsoDate(ToInt(Slice(s, 0, 4)), ToInt(Slice(s, 5, 7)), ToInt(Slice(s, 8, 10)),
                 SliceFrom(s, 11))

\* s.replace("Z", "+00:00")
RECURSIVE ReplaceZ(_)
ReplaceZ(s) ==
    IF s = <<>> THEN <<>>
    ELSE (IF Head(s) = "Z" THEN <<"+", "0", "0", ":", "0", "0">> ELSE <<Head(s)>>) \o ReplaceZ(Tail(s))

\* `len(t) >= 5 and (t[-5] in ["+", "-"] and t[-3] != ":")`
NeedsTzColon(t) == Len(t) >= 5 /\ t[Len(t) - 4] \in {"+", "-"} /\ t[Len(t) - 2] # ":"
\* t[:-2] + ":" + t[-2:]
InsertTzColon(t) == SubSeq(t, 1, Len(t) - 2) \o <<":">> \o SubSeq(t, Len(t) - 1, Len(t))

-----------------------------------------------------------------------------
(* the datetime parsers of utils.py and of the adapters                    *)

Fmt_Ymd == <<Dir("Y"), Lit("-"), Dir("m"), Lit("-"), Dir("d")>>
Fmt_HMS == <<Dir("H"), Lit(":"), Dir("M"), Lit(":"), Dir("S")>>
Fmt_HM == <<Dir("H"), Lit(":"), Dir("M")>>
\* "%Y-%m-%dT%H:%M:%S"
Fmt_YmdTHMS == Fmt_Ymd \o <<Lit("T")>> \o Fmt_HMS
\* "%Y-%m-%dT%H:%M:%S%z"
Fmt_YmdTHMSz == Fmt_YmdTHMS \o <<Dir("z")>>
\* "%Y-%m-%d %H:%M:%S"
Fmt_Ymd_HMS == Fmt_Ymd \o <<Ws>> \o Fmt_HMS
\* "%d/%m/%Y"
Fmt_dmY_slash == <<Dir("d"), Lit("/"), Dir("m"), Lit("/"), Dir("Y")>>
\* "%d/%m/%Y %H:%M"
Fmt_dmY_slash_HM == Fmt_dmY_slash \o <<Ws>> \o Fmt_HM
\* "%d.%m.%Y, %H:%M" and "%d.%m.%Y %H:%M"
Fmt_dmY_dot == <<Dir("d"), Lit("."), Dir("m"), Lit("."), Dir("Y")>>
Fmt_dmY_dot_comma_HM == Fmt_dmY_dot \o <<Lit(","), Ws>> \o Fmt_HM
Fmt_dmY_dot_HM == Fmt_dmY_dot \o <<Ws>> \o Fmt_HM

\* `try: return X except Exception: return None`
OrNone(r) == IF PRaised(r) THEN PNone ELSE r

\* parse_dt_iso after fromisoformat: r is what fromisoformat did
dt_iso_formats(r, s) ==
    IF ~PRaised(r) THEN r
    ELSE FirstStrptime(s, <<Fmt_YmdTHMSz, Fmt_YmdTHMS, Fmt_Ymd>>)

\* utils.parse_dt_iso
parse_dt_iso(s) ==
    IF ~Truthy(s) THEN PNone
    ELSE LET t0 == Strip(s)
             t1 == IF EndsWithC(t0, "Z") THEN SubSeq(t0, 1, Len(t0) - 1) \o ReplaceZ(<<"Z">>) ELSE t0
             t2 == IF NeedsTzColon(t1) THEN InsertTzColon(t1) ELSE t1
         IN  dt_iso_formats(FromIsoFormat(t2), s)

\* `except ValueError: return datetime.now()`
correos_or_now(r, clock) == IF r.exc = "ValueError" THEN PRet(NowNaive(clock)) ELSE r

\* correos._parse_correos_datetime: only ValueError is caught
parse_correos_datetime(date_str, time_str, clock) ==
    correos_or_now(IF Truthy(date_str) /\ Truthy(time_str)
                   THEN Strptime(date_str \o <<" ">> \o time_str, Fmt_dmY_slash_HM)
                   ELSE IF Truthy(date_str) THEN Strptime(date_str, Fmt_dmY_slash)
                   ELSE PRet(NowNaive(clock)),
                   clock)

\* _parse_gls_datetime after the two formats: r is what they gave
gls_insert_colon(r, s) ==
    IF ~r.none THEN r
    ELSE IF NeedsTzColon(s) THEN OrNone(FromIsoFormat(InsertTzColon(s)))
    ELSE PNone

\* gls._parse_gls_datetime
parse_gls_datetime(s) ==
    IF ~Truthy(s) THEN PNone
    ELSE gls_insert_colon(FirstStrptime(s, <<Fmt_YmdTHMSz, Fmt_YmdTHMS>>), s)

\* _parse_iso_date after strptime: r is what strptime did
iso_date_fallback(r, s) == IF ~PRaised(r) THEN r ELSE OrNone(FromIsoFormat(ReplaceZ(s)))

\* dpd._parse_iso_date
parse_iso_date(s) ==
    IF ~Truthy(s) THEN PNone ELSE iso_date_fallback(Strptime(s, Fmt_YmdTHMS), s)

\* dpd._parse_dpd_status_date
parse_dpd_status_date(s) ==
    IF ~Truthy(s) THEN PNone
    ELSE FirstStrptime(s, <<Fmt_dmY_dot_comma_HM, Fmt_dmY_dot_HM>>)

\* re.match(r"(\d{4}-\d{2}-\d{2} \d{2}:\d{2}:\d{2}) UTC([+-]\d+)", s):
\* the pattern is matched at the start of s, \d+ takes every digit that follows
EcoShape == <<"9","9","9","9","-","9","9","-","9","9"," ","9","9",":","9","9",":","9","9",
              " ","U","T","C","+","9">>
EcoMatches(s) ==
    /\ Len(s) >= Len(EcoShape)
    /\ \A i \in DOMAIN EcoShape :
         CASE EcoShape[i] = "9" -> IsDigitC(s[i])
           [] EcoShape[i] = "+" -> s[i] \in {"+", "-"}
           [] OTHER -> s[i] = EcoShape[i]
RECURSIVE DigitRun(_)
DigitRun(s) == IF s # <<>> /\ IsDigitC(Head(s)) THEN <<Head(s)>> \o DigitRun(Tail(s)) ELSE <<>>

\* `dt.replace(tzinfo=timezone(timedelta(hours=offset_hours)))`: dt is what
\* strptime did
eco_with_offset(dt, offset_hours) ==
    LET total == dt.dt.sec - offset_hours * 3600 + 2 * 86400 IN
    IF PRaised(dt) THEN dt
    ELSE IF ~TzOk(offset_hours * 3600) THEN PRaise("ValueError")
    ELSE PRet(DT(TRUE, dt.dt.day + (total \div 86400) - 2, total % 86400, 0))

\* ecoscooting._parse_ecoscooting_date: nothing is caught after the match
parse_ecoscooting_date(s, clock) ==
    IF s = None THEN PRaise("TypeError")
    ELSE IF ~EcoMatches(s) THEN PRet(NowUtc(clock))
    ELSE eco_with_offset(Strptime(SubSeq(s, 1, 19), Fmt_Ymd_HMS),
                         Signed(s[24] = "-", ToInt(DigitRun(SliceFrom(s, 24)))))

-----------------------------------------------------------------------------
(* models.py: the unified model                                            *)

TrackingEvent(timestamp, status, location, details, status_code, extras) ==
    [timestamp |-> timestamp, status |-> status, location |-> location,
     details |-> details, status_code |-> status_code, extras |-> extras]

Shipment(tracking_number, carrier, status, events) ==
    [tracking_number |-> tracking_number, carrier |-> carrier,
     status |-> status, events |-> events]

TrackingResponse(shipments, provider) == [shipments |-> shipments, provider |-> provider]

\* TrackingResponse.has_shipments
has_shipments(resp) == Len(resp.shipments) > 0

\* the value of tracking_response before anything was assigned to it
NoResponse == TrackingResponse(<<>>, None)

-----------------------------------------------------------------------------
(* status inference: utils.map_status_from_text and the adapters' tables   *)

\* `sub in t`
Contains(t, sub) ==
    \E i \in 0..(Len(t) - Len(sub)) : SubSeq(t, i + 1, i + Len(sub)) = sub

\* `any(p in t for p in phrases)`
ContainsAny(t, phrases) == \E p \in phrases : Contains(t, p)

\* `x or ""` for an Optional[str]
OrEmpty(x) == IF x = None THEN <<>> ELSE x

\* `a or b` for Optional[str] values
Or(a, b) == IF Truthy(a) THEN a ELSE b

\* a classification that tests the generic keywords of information_received
\* before the pickup phrases
map_status_from_text_GenericPickupFirst(text) ==
    IF ~Truthy(text) THEN "unknown"
    ELSE LET t == Lower(text) IN
         IF ContainsAny(t, { <<"p","i","c","k","u","p">>, <<"a","c","c","e","p","t","e","d">>, <<"a","d","m","i","t","i","d","o">>, <<"p","r","e","-","r","e","g","i","s","t","e","r","e","d">>, <<"p","r","e"," ","r","e","g","i","s","t","e","r","e","d">> })
         THEN "information_received"
         ELSE IF ContainsAny(t, { <<"a","v","a","i","l","a","b","l","e"," ","f","o","r"," ","p","i","c","k","u","p">>, <<"r","e","a","d","y"," ","f","o","r"," ","p","i","c","k","u","p">>, <<"d","i","s","p","o","n","i","b","l","e"," ","p","a","r","a"," ","r","e","c","o","g","e","r">>,
                                  <<"p","a","r","a"," ","r","e","c","o","g","e","r">>, <<"p","i","c","k","u","p"," ","p","o","i","n","t">>, <<"c","o","l","l","e","c","t","i","o","n"," ","p","o","i","n","t">> })
         THEN "available_for_pickup"
         ELSE IF ContainsAny(t, { <<"d","e","l","i","v","e","r","e","d">>, <<"e","n","t","r","e","g","a","d","o">> }) THEN "delivered"
         ELSE IF ContainsAny(t, { <<"o","u","t"," ","f","o","r"," ","d","e","l","i","v","e","r","y">>, <<"i","n"," ","d","e","l","i","v","e","r","y">>, <<"r","e","p","a","r","t","o">> })
         THEN "out_for_delivery"
         ELSE IF ContainsAny(t, { <<"i","n"," ","t","r","a","n","s","i","t">>, <<"t","r","a","n","s","i","t">>, <<"d","e","p","o","t">>, <<"s","o","r","t","e","d">>, <<"o","n"," ","t","h","e"," ","w","a","y">> })
         THEN "in_transit"
         ELSE IF ContainsAny(t, { <<"e","x","c","e","p","t","i","o","n">>, <<"f","a","i","l","e","d">>, <<"u","n","d","e","l","i","v","e","r","a","b","l","e">> })
         THEN "exception"
         ELSE "unknown"

\* utils.map_status_from_text
map_status_from_text(text) ==
    IF ~Truthy(text) THEN "unknown"
    ELSE LET t == Lower(text) IN
         IF ContainsAny(t, { <<"a","v","a","i","l","a","b","l","e"," ","f","o","r"," ","p","i","c","k","u","p">>, <<"r","e","a","d","y"," ","f","o","r"," ","p","i","c","k","u","p">>,
                             <<"d","i","s","p","o","n","i","b","l","e"," ","p","a","r","a"," ","r","e","c","o","g","e","r">>, <<"p","a","r","a"," ","r","e","c","o","g","e","r">>,
                             <<"p","i","c","k","u","p"," ","p","o","i","n","t">>, <<"c","o","l","l","e","c","t","i","o","n"," ","p","o","i","n","t">> })
         THEN "available_for_pickup"
         ELSE IF ContainsAny(t, { <<"d","e","l","i","v","e","r","e","d">>, <<"e","n","t","r","e","g","a","d","o">> }) THEN "delivered"
         ELSE IF ContainsAny(t, { <<"o","u","t"," ","f","o","r"," ","d","e","l","i","v","e","r","y">>, <<"i","n"," ","d","e","l","i","v","e","r","y">>, <<"r","e","p","a","r","t","o">> })
         THEN "out_for_delivery"
         ELSE IF ContainsAny(t, { <<"i","n"," ","t","r","a","n","s","i","t">>, <<"t","r","a","n","s","i","t">>, <<"d","e","p","o","t">>, <<"s","o","r","t","e","d">>,
                                  <<"o","n"," ","t","h","e"," ","w","a","y">> })
         THEN "in_transit"
         ELSE IF ContainsAny(t, { <<"p","i","c","k","u","p">>, <<"a","c","c","e","p","t","e","d">>, <<"a","d","m","i","t","i","d","o">>, <<"p","r","e","-","r","e","g","i","s","t","e","r","e","d">>,
                                  <<"p","r","e"," ","r","e","g","i","s","t","e","r","e","d">> })
         THEN "information_received"
         ELSE IF ContainsAny(t, { <<"e","x","c","e","p","t","i","o","n">>, <<"f","a","i","l","e","d">>, <<"u","n","d","e","l","i","v","e","r","a","b","l","e">> })
         THEN "exception"
         ELSE "unknown"

\* ctt._infer_ctt_status._norm: lowercase, then drop the accents
Unaccent(t) ==
    [i \in DOMAIN t |->
        CASE t[i] = "a'" -> "a" [] t[i] = "e'" -> "e" [] t[i] = "i'" -> "i"
          [] t[i] = "o'" -> "o" [] t[i] = "u'" -> "u" [] t[i] = "n~" -> "n"
          [] OTHER -> t[i]]

\* a classification that skips the code table
infer_ctt_status_TextOnly(events) ==
    IF events = <<>> THEN "unknown"
    ELSE map_status_from_text(OrEmpty(events[Len(events)].status))

\* ctt._infer_ctt_status
infer_ctt_status(events) ==
    IF events = <<>> THEN "unknown"
    ELSE LET latest == events[Len(events)]
             text == OrEmpty(latest.status)
             code == Strip(OrEmpty(latest.status_code))
             t == Unaccent(Lower(text))
         IN  IF code = <<"0","0","0","0">> THEN "information_received"
             ELSE IF code = <<"1","0","0","0">> THEN "in_transit"
             ELSE IF code = <<"1","5","0","0">> THEN "out_for_delivery"
             ELSE IF code = <<"2","3","1","0">> THEN "available_for_pickup"
             ELSE IF ContainsAny(t, { <<"e","n","t","r","e","g","a","d","o">>, <<"e","n","t","r","e","g","a"," ","r","e","a","l","i","z","a","d","a">> }) THEN "delivered"
             ELSE IF ContainsAny(t, { <<"e","n","t","r","e","g","a"," ","h","o","y">>, <<"e","n"," ","r","e","p","a","r","t","o">>, <<"r","e","p","a","r","t","o">>,
                                      <<"d","e","l","i","v","e","r","y"," ","t","o","d","a","y">> })
             THEN "out_for_delivery"
             ELSE IF ContainsAny(t, { <<"d","i","s","p","o","n","i","b","l","e"," ","p","a","r","a"," ","r","e","c","o","g","e","r">>, <<"p","a","r","a"," ","r","e","c","o","g","e","r">>,
                                      <<"p","u","n","t","o"," ","d","e"," ","r","e","c","o","g","i","d","a">> })
             THEN "available_for_pickup"
             ELSE IF ContainsAny(t, { <<"t","r","a","n","s","i","t","o">>, <<"e","n"," ","t","r","a","n","s","i","t","o">>, <<"i","n"," ","t","r","a","n","s","i","t">> })
             THEN "in_transit"
             ELSE IF ContainsAny(t, { <<"p","e","n","d","i","e","n","t","e"," ","d","e"," ","r","e","c","e","p","c","i","o","n">>, <<"p","e","n","d","i","e","n","t","e"," ","d","e"," ","r","e","c","o","g","i","d","a">>,
                                      <<"a","d","m","i","t","i","d","o">> })
             THEN "information_received"
             ELSE map_status_from_text(text)

\* correos._infer_correos_status
infer_correos_status(events) ==
    IF events = <<>> THEN "unknown"
    ELSE LET latest_status == Lower(events[Len(events)].status) IN
         IF ContainsAny(latest_status, { <<"e","n","t","r","e","g","a","d","o">>, <<"d","e","l","i","v","e","r","e","d">> }) THEN "delivered"
         ELSE IF ContainsAny(latest_status, { <<"r","e","p","a","r","t","o">>, <<"d","e","l","i","v","e","r","y">> }) THEN "out_for_delivery"
         ELSE IF ContainsAny(latest_status, { <<"t","r","a","n","s","i","t","o">>, <<"t","r","a","n","s","i","t">> }) THEN "in_transit"
         ELSE IF ContainsAny(latest_status, { <<"a","d","m","i","t","i","d","o">>, <<"r","e","c","e","i","v","e","d">> })
         THEN "information_received"
         ELSE "unknown"

\* dhl._map_utapi_status_code
map_utapi_status_code(code) ==
    IF ~Truthy(code) THEN "unknown"
    ELSE LET c == Lower(code) IN
         IF c = <<"d","e","l","i","v","e","r","e","d">> THEN "delivered"
         ELSE IF c = <<"f","a","i","l","u","r","e">> THEN "exception"
         ELSE IF c = <<"p","r","e","-","t","r","a","n","s","i","t">> THEN "information_received"
         ELSE IF c = <<"t","r","a","n","s","i","t">> THEN "in_transit"
         ELSE "unknown"

\* the phrases of dhl._infer_dhl_status that turn a transit code into out_for_delivery
DhlDeliveryPhrases ==
    { <<"o","u","t"," ","f","o","r"," ","d","e","l","i","v","e","r","y">>, <<"i","n"," ","d","e","l","i","v","e","r","y">>, <<"l","o","a","d","e","d"," ","o","n","t","o"," ","t","h","e"," ","d","e","l","i","v","e","r","y"," ","v","e","h","i","c","l","e">>,
      <<"d","e","l","i","v","e","r","y"," ","v","e","h","i","c","l","e">> }

\* dhl._infer_dhl_status; st_code is shipment.status.statusCode
infer_dhl_status(st_code, events) ==
    LET mapped == map_utapi_status_code(Strip(OrEmpty(st_code)))
        latest == events[Len(events)]
        latest_text == OrEmpty(Or(latest.details, latest.status))
        by_event == map_utapi_status_code(latest.status_code)
    IN  IF mapped # "unknown"
        THEN IF mapped = "in_transit" /\ events # <<>>
                  /\ ContainsAny(Lower(latest_text), DhlDeliveryPhrases)
             THEN "out_for_delivery" ELSE mapped
        ELSE IF events = <<>> THEN "unknown"
        ELSE IF Truthy(latest.status_code) /\ by_event # "unknown"
        THEN IF by_event = "in_transit" /\ ContainsAny(Lower(latest_text), DhlDeliveryPhrases)
             THEN "out_for_delivery" ELSE by_event
        ELSE map_status_from_text(latest_text)

\* a table without the parcel-shop delivery
map_gls_status_NoParcelShop(s) ==
    CASE s \in { <<"P","L","A","N","N","E","D","P","I","C","K","U","P">>, <<"I","N","P","I","C","K","U","P">>, <<"P","R","E","A","D","V","I","C","E">> } -> "information_received"
      [] s \in { <<"N","O","T","P","I","C","K","E","D","U","P">>, <<"N","O","T","D","E","L","I","V","E","R","E","D">> } -> "exception"
      [] s \in { <<"I","N","T","R","A","N","S","I","T">>, <<"I","N","W","A","R","E","H","O","U","S","E">> } -> "in_transit"
      [] s = <<"I","N","D","E","L","I","V","E","R","Y">> -> "out_for_delivery"
      [] s = <<"D","E","L","I","V","E","R","E","D">> -> "delivered"
      [] s = <<"C","A","N","C","E","L","E","D">> -> "cancelled"
      [] OTHER -> "unknown"

\* gls._map_gls_status
map_gls_status(s) ==
    CASE s \in { <<"P","L","A","N","N","E","D","P","I","C","K","U","P">>, <<"I","N","P","I","C","K","U","P">>, <<"P","R","E","A","D","V","I","C","E">> } -> "information_received"
      [] s \in { <<"N","O","T","P","I","C","K","E","D","U","P">>, <<"N","O","T","D","E","L","I","V","E","R","E","D">> } -> "exception"
      [] s \in { <<"I","N","T","R","A","N","S","I","T">>, <<"I","N","W","A","R","E","H","O","U","S","E">> } -> "in_transit"
      [] s = <<"I","N","D","E","L","I","V","E","R","Y">> -> "out_for_delivery"
      [] s \in { <<"D","E","L","I","V","E","R","E","D","P","S">>, <<"D","E","L","I","V","E","R","E","D">> } -> "delivered"
      [] s = <<"C","A","N","C","E","L","E","D">> -> "cancelled"
      [] OTHER -> "unknown"

\* ecoscooting._map_ecoscooting_status
map_ecoscooting_status(status_group) ==
    IF ~Truthy(status_group) THEN "unknown"
    ELSE LET status_lower == Lower(status_group) IN
         IF status_lower = <<"d","e","l","i","v","e","r","e","d">> THEN "delivered"
         ELSE IF status_lower = <<"r","e","a","d","y","_","f","o","r","_","c","o","l","l","e","c","t","i","o","n">> THEN "available_for_pickup"
         ELSE IF status_lower = <<"d","e","l","i","v","e","r","i","n","g">> THEN "out_for_delivery"
         ELSE IF status_lower = <<"i","n","_","t","r","a","n","s","i","t">> THEN "in_transit"
         ELSE "unknown"

-----------------------------------------------------------------------------
(* the adapters' normalizers: a carrier's JSON body to a TrackingResponse   *)

\* A body is reduced to the keys the normalizers read; None is an absent key.
\* One raw event:
\*   CTT       f_ts = detail.item_event_datetime, f_ts2 = event_date,
\*             f_text = description, f_text2 = type, f_code = code
\*   Correos   f_ts = eventDate, f_ts2 = eventTime, f_text = summaryText,
\*             f_text2 = extendedText, f_code = eventCode
\*   DHL       f_ts = timestamp, f_text = status, f_text2 = description,
\*             f_code = statusCode
\*   GLS       f_ts = eventDateTime, f_text = description, f_code = code
\*   DPD scan  f_ts = date, f_text = scanDescription.content[0],
\*             f_text2 = scanDescription.label
\*   DPD statusInfo  f_ts = date, f_text = description.content[0], f_text2 = label,
\*             f_code = status, reached = statusHasBeenReached, current = isCurrentStatus
\*   DPD events (a list at the top of the body)  f_ts = date, f_text = status
\*   Ecoscooting statuses  f_ts = datetime, f_text = statusName,
\*             f_text2 = description, f_code = statusGroup
RawEvent(ts, ts2, text, text2, code, reached, current) ==
    [f_ts |-> ts, f_ts2 |-> ts2, f_text |-> text, f_text2 |-> text2, f_code |-> code,
     reached |-> reached, current |-> current]

\* One shipment of the body: data (CTT), shipment[0] (Correos), shipments[0] (DHL),
\* a parcel (GLS), parcelLifeCycleData (DPD).  id is shipping_code, shipmentCode, id,
\* unitno, shipmentInfo.parcelLabelNumber; status is status.statusCode (DHL), status
\* (GLS); events_kind tells an absent events key and a null from a list;
\* status_info is DPD's statusInfo
Item(id, status, events_kind, events, status_info) ==
    [id |-> id, status |-> status, events_kind |-> events_kind, events |-> events,
     status_info |-> status_info]

\* The body.  container is the state of the key that holds the shipments: data,
\* shipment, shipments, parcels, parcellifecycleResponse, statuses; json is DPD's
\* Content-Type being application/json, success is Ecoscooting's success == "true"
Payload(container, items, top_events, json, success) ==
    [container |-> container, items |-> items, top_events |-> top_events,
     json |-> json, success |-> success]

NmRet(resp) == [exc |-> "none", resp |-> resp]
NmRaise(e) == [exc |-> e, resp |-> NoResponse]
NmRaised(r) == r.exc # "none"

s_ecoscooting == <<"e","c","o","s","c","o","o","t","i","n","g">>

\* the clock when the i-th event of a body is converted: datetime.now() never
\* goes back between two calls
ClockAt(clock, i) == <<clock[1], clock[2] + i>>

\* a conversion that stamps every event with the time of the call
OrNow_IgnoresParsed(r, clock) == NowNaive(clock)

\* `parse(...) or datetime.now()`
OrNow(r, clock) == IF r.none THEN NowNaive(clock) ELSE r.dt

\* datetime.__lt__ on two naive or two aware values
DtLess(a, b) ==
    \/ a.day < b.day
    \/ a.day = b.day /\ a.sec < b.sec
    \/ a.day = b.day /\ a.sec = b.sec /\ a.us < b.us

\* e put behind the events of the sorted list s that are not later than it
InsertEvent(s, e) ==
    LET k == Cardinality({ i \in DOMAIN s : ~DtLess(e.timestamp, s[i].timestamp) })
    IN  SubSeq(s, 1, k) \o <<e>> \o SubSeq(s, k + 1, Len(s))

RECURSIVE StableSort(_)
StableSort(evs) ==
    IF evs = <<>> THEN <<>>
    ELSE InsertEvent(StableSort(SubSeq(evs, 1, Len(evs) - 1)), evs[Len(evs)])

\* `events.sort(key=lambda e: e.timestamp)`: comparing a naive with an aware
\* datetime raises TypeError, and a sort compares across any split of the list
SortEvents(evs) ==
    IF \E i, j \in DOMAIN evs : evs[i].timestamp.aware # evs[j].timestamp.aware
    THEN [exc |-> "TypeError", events |-> <<>>]
    ELSE [exc |-> "none", events |-> StableSort(evs)]

\* `for ev in item.get("events", [])`: a null is not iterable
IterEvents(item) ==
    IF item.events_kind = "null" THEN [exc |-> "TypeError", events |-> <<>>]
    ELSE [exc |-> "none", events |-> item.events]

\* `item.get("events") or []`
EventsOrEmpty(item) == IF item.events_kind = "list" THEN item.events ELSE <<>>

\* ctt.normalize_ctt_response, one event
ctt_event(ev, clock) ==
    LET dt_str == Or(ev.f_ts, ev.f_ts2)
        desc == Or(ev.f_text, Or(ev.f_text2, <<>>))
    IN  TrackingEvent(OrNow(parse_dt_iso(dt_str), clock), desc, None, None, ev.f_code, None)

\* normalize_ctt_response after the sort
ctt_response(data, tracking_number, sorted) ==
    IF sorted.exc # "none" THEN NmRaise(sorted.exc)
    ELSE NmRet(TrackingResponse(
            <<Shipment(Or(data.id, tracking_number), s_ctt,
                       infer_ctt_status(sorted.events), sorted.events)>>, s_ctt))

ctt_events(raw_events, clock) ==
    [i \in 1..Len(raw_events) |-> ctt_event(raw_events[i], ClockAt(clock, i))]

\* ctt.normalize_ctt_response
normalize_ctt_response(raw, tracking_number, clock) ==
    IF raw.container # "present" THEN NmRet(TrackingResponse(<<>>, s_ctt))
    ELSE ctt_response(raw.items[1], tracking_number,
                      SortEvents(ctt_events(EventsOrEmpty(raw.items[1]), clock)))

\* correos.normalize_correos_response, one event
correos_event(ev, clock) ==
    TrackingEvent(parse_correos_datetime(OrEmpty(ev.f_ts), OrEmpty(ev.f_ts2), clock).dt,
                  OrEmpty(ev.f_text), None, ev.f_text2,
                  IF Truthy(ev.f_code) THEN ev.f_code ELSE None, None)

\* normalize_correos_response after the sort
correos_response(correos_shipment, tracking_number, sorted) ==
    IF sorted.exc # "none" THEN NmRaise(sorted.exc)
    ELSE NmRet(TrackingResponse(
            <<Shipment(IF correos_shipment.id = None THEN tracking_number
                       ELSE correos_shipment.id,
                       s_correos, infer_correos_status(sorted.events), sorted.events)>>,
            s_correos))

correos_events(raw_events, clock) ==
    [i \in 1..Len(raw_events) |-> correos_event(raw_events[i], ClockAt(clock, i))]

\* correos.normalize_correos_response
normalize_correos_response(raw_data, tracking_number, clock) ==
    IF raw_data.container # "present" THEN NmRet(TrackingResponse(<<>>, s_correos))
    ELSE IF IterEvents(raw_data.items[1]).exc # "none"
    THEN NmRaise(IterEvents(raw_data.items[1]).exc)
    ELSE correos_response(raw_data.items[1], tracking_number,
                          SortEvents(correos_events(raw_data.items[1].events, clock)))

\* str.isupper: a cased character, and no lowercase one
IsUpperStr(t) ==
    /\ \E i \in DOMAIN t : IsUpperC(t[i])
    /\ \A i \in DOMAIN t : ~IsLowerC(t[i])

\* dhl._looks_like_short_code
looks_like_short_code(t) == Truthy(t) /\ Len(t) <= 3 /\ IsUpperStr(t)

\* dhl._select_event_text; statusDetailed, nextSteps and remark are absent
select_event_text(ev) ==
    LET status_text == Strip(OrEmpty(ev.f_text))
        desc == Strip(OrEmpty(ev.f_text2))
        status_out == IF looks_like_short_code(status_text) /\ desc # <<>> THEN desc
                      ELSE IF status_text # <<>> THEN status_text ELSE desc
    IN  [status |-> status_out,
         details |-> IF desc # <<>> /\ status_out # desc THEN desc ELSE None]

\* the event built from the texts _select_event_text chose
dhl_event_of(ev, txt, clock) ==
    TrackingEvent(OrNow(parse_dt_iso(OrEmpty(ev.f_ts)), clock), txt.status, None, txt.details,
                  IF Truthy(ev.f_code) THEN ev.f_code ELSE None, None)

\* dhl.normalize_dhl_response, one event
dhl_event(ev, clock) == dhl_event_of(ev, select_event_text(ev), clock)

\* normalize_dhl_response after the sort
dhl_response(dhl_shipment, tracking_number, sorted) ==
    IF sorted.exc # "none" THEN NmRaise(sorted.exc)
    ELSE NmRet(TrackingResponse(
            <<Shipment(IF dhl_shipment.id = None THEN tracking_number ELSE dhl_shipment.id,
                       s_dhl, infer_dhl_status(dhl_shipment.status, sorted.events),
                       sorted.events)>>, s_dhl))

dhl_events(raw_events, clock) ==
    [i \in 1..Len(raw_events) |-> dhl_event(raw_events[i], ClockAt(clock, i))]

\* dhl.normalize_dhl_response
normalize_dhl_response(raw_data, tracking_number, clock) ==
    IF raw_data.container # "present" THEN NmRet(TrackingResponse(<<>>, s_dhl))
    ELSE IF IterEvents(raw_data.items[1]).exc # "none"
    THEN NmRaise(IterEvents(raw_data.items[1]).exc)
    ELSE dhl_response(raw_data.items[1], tracking_number,
                      SortEvents(dhl_events(raw_data.items[1].events, clock)))

\* the event with its text: `ev.get("description") or ev.get("code") or ""`
gls_event_of(ev, desc, clock) ==
    TrackingEvent(OrNow(parse_gls_datetime(ev.f_ts), clock), desc, None, desc, ev.f_code, None)

\* gls.normalize_gls_parcels_response, one event; city, postalCode and country are absent
gls_event(ev, clock) == gls_event_of(ev, Or(ev.f_text, Or(ev.f_code, <<>>)), clock)

\* the number of events of the parcels before the p-th
RECURSIVE EventsBefore(_, _)
EventsBefore(parcels, p) ==
    IF p <= 1 THEN 0
    ELSE EventsBefore(parcels, p - 1) + Len(EventsOrEmpty(parcels[p - 1]))

gls_events(raw_events, base, clock) ==
    [i \in 1..Len(raw_events) |-> gls_event(raw_events[i], ClockAt(clock, base + i))]

\* one parcel after the sort of its events
gls_shipment(p, sorted) ==
    [exc |-> sorted.exc,
     shipment |-> Shipment(p.id, s_gls, map_gls_status(Upper(OrEmpty(p.status))),
                           sorted.events)]

\* gls.normalize_gls_parcels_response, one parcel with a unitno
gls_parcel(parcels, k, clock) ==
    gls_shipment(parcels[k],
                 SortEvents(gls_events(EventsOrEmpty(parcels[k]), EventsBefore(parcels, k), clock)))

\* the loop over the parcels: entries without a unitno are skipped, the first
\* exception ends the call
RECURSIVE gls_shipments(_, _, _)
gls_append(one, parcels, k, clock) ==
    IF one.exc # "none" THEN [exc |-> one.exc, shipments |-> <<>>]
    ELSE IF gls_shipments(parcels, k + 1, clock).exc # "none"
    THEN gls_shipments(parcels, k + 1, clock)
    ELSE [exc |-> "none",
          shipments |-> <<one.shipment>> \o gls_shipments(parcels, k + 1, clock).shipments]
gls_shipments(parcels, k, clock) ==
    IF k > Len(parcels) THEN [exc |-> "none", shipments |-> <<>>]
    ELSE IF ~Truthy(parcels[k].id) THEN gls_shipments(parcels, k + 1, clock)
    ELSE gls_append(gls_parcel(parcels, k, clock), parcels, k, clock)

gls_response(r) ==
    IF r.exc # "none" THEN NmRaise(r.exc) ELSE NmRet(TrackingResponse(r.shipments, s_gls))

\* gls.normalize_gls_parcels_response
normalize_gls_parcels_response(raw, clock) ==
    gls_response(gls_shipments(IF raw.container = "present" THEN raw.items ELSE <<>>, 1, clock))

\* dpd._coerce_timestamp for an event whose only time key is date, a string
coerce_timestamp(ev) ==
    IF ~Truthy(ev.f_ts) THEN PNone
    ELSE FirstStrptime(ev.f_ts, <<Fmt_YmdTHMSz, Fmt_YmdTHMS, Fmt_dmY_slash_HM, Fmt_dmY_slash>>)

\* `_parse_iso_date(ev.get("date")) or _coerce_timestamp(ev)`
dpd_scan_timestamp(iso, ev) == IF iso.none THEN coerce_timestamp(ev) ELSE iso

\* the event with its text: `(desc[0] if desc else None) or label`
dpd_event_of(ts, status_text, clock) ==
    TrackingEvent(OrNow(ts, clock), Or(status_text, <<>>), None, status_text, None, None)

\* dpd._normalize_dpd_plc_json, one scan event
dpd_scan_event(ev, clock) ==
    dpd_event_of(dpd_scan_timestamp(parse_iso_date(ev.f_ts), ev), Or(ev.f_text, ev.f_text2), clock)

\* dpd._normalize_dpd_plc_json, one reached milestone of statusInfo
dpd_status_event(st, clock) ==
    dpd_event_of(parse_dpd_status_date(st.f_ts), Or(st.f_text, Or(st.f_text2, st.f_code)), clock)

\* `if not st.get("statusHasBeenReached"): continue`
RECURSIVE SelectReached(_)
SelectReached(sts) ==
    IF sts = <<>> THEN <<>>
    ELSE IF Head(sts).reached THEN <<Head(sts)>> \o SelectReached(Tail(sts))
    ELSE SelectReached(Tail(sts))

\* the status of the milestone flagged isCurrentStatus
dpd_current_status(cur) ==
    IF Contains(cur, <<"D","E","L","I","V","E","R","E","D">>) THEN "delivered"
    ELSE IF Contains(cur, <<"O","U","T","_","F","O","R","_","D","E","L","I","V","E","R","Y">>) THEN "out_for_delivery"
    ELSE IF ContainsAny(cur, { <<"O","N","_","T","H","E","_","R","O","A","D">>, <<"A","T","_","D","E","L","I","V","E","R","Y","_","D","E","P","O","T">>, <<"I","N","_","T","R","A","N","S","I","T">> })
    THEN "in_transit"
    ELSE IF Contains(cur, <<"P","I","C","K","U","P">>) THEN "information_received"
    ELSE "unknown"

\* the status read off the text of the last event
dpd_last_status(last) ==
    IF Contains(last, <<"d","e","l","i","v","e","r","e","d">>) THEN "delivered"
    ELSE IF ContainsAny(last, { <<"o","u","t"," ","f","o","r"," ","d","e","l","i","v","e","r","y">>, <<"d","e","l","i","v","e","r","y">> }) THEN "out_for_delivery"
    ELSE IF ContainsAny(last, { <<"t","r","a","n","s","i","t">>, <<"d","e","p","o","t">>, <<"o","n"," ","t","h","e"," ","w","a","y">> }) THEN "in_transit"
    ELSE "unknown"

\* the events of the body: the scans, else the reached milestones
dpd_plc_events(scan_info, reached, clock) ==
    IF scan_info # <<>>
    THEN [i \in 1..Len(scan_info) |-> dpd_scan_event(scan_info[i], ClockAt(clock, i))]
    ELSE [i \in 1..Len(reached) |-> dpd_status_event(reached[i], ClockAt(clock, i))]

\* the shipment status: the milestone flagged isCurrentStatus, else the last event
dpd_plc_status(status_info, events) ==
    LET currents == { i \in DOMAIN status_info : status_info[i].current }
        current == status_info[CHOOSE i \in currents : \A j \in currents : i <= j]
    IN  IF currents # {} THEN dpd_current_status(Upper(OrEmpty(current.f_code)))
        ELSE IF events # <<>> THEN dpd_last_status(Lower(events[Len(events)].status))
        ELSE "unknown"

\* _normalize_dpd_plc_json after the sort
dpd_plc_shipment(status_info, tracking_number, sorted) ==
    IF sorted.exc # "none" THEN [exc |-> sorted.exc, shipment |-> None]
    ELSE [exc |-> "none",
          shipment |-> Shipment(tracking_number, s_dpd,
                                dpd_plc_status(status_info, sorted.events), sorted.events)]

\* dpd._normalize_dpd_plc_json; the result is a Shipment or an exception
normalize_dpd_plc_json(obj, parcel_number, clock) ==
    IF obj.container = "null" THEN [exc |-> "AttributeError", shipment |-> None]
    ELSE IF obj.container # "present"
    THEN dpd_plc_shipment(<<>>, parcel_number, SortEvents(<<>>))
    ELSE dpd_plc_shipment(obj.items[1].status_info, Or(obj.items[1].id, parcel_number),
                          SortEvents(dpd_plc_events(EventsOrEmpty(obj.items[1]),
                                                    SelectReached(obj.items[1].status_info),
                                                    clock)))

\* dpd._find_first_events_list: the first list of objects, breadth first, one of
\* whose keys is status, description or state.  A list at the top of the body is
\* met before statusInfo, whose entries carry status and description; the scans
\* carry none of the three keys
find_first_events_list(obj) ==
    IF obj.top_events # <<>> THEN obj.top_events
    ELSE IF obj.container = "present" /\ obj.items[1].status_info # <<>>
    THEN [i \in DOMAIN obj.items[1].status_info |->
             LET st == obj.items[1].status_info[i] IN [st EXCEPT !.f_text = st.f_code]]
    ELSE <<>>

\* dpd._normalize_dpd_embedded, one event: _coerce_timestamp, _coerce_status_text
\* (status is the only text key that holds a string), _coerce_details (no key)
dpd_embedded_event(ev, clock) ==
    TrackingEvent(OrNow(coerce_timestamp(ev), clock), OrEmpty(ev.f_text), None, None, None, None)

\* the status read off the text of the last event by _normalize_dpd_embedded
dpd_embedded_status(last) ==
    IF Contains(last, <<"d","e","l","i","v","e","r","e","d">>) THEN "delivered"
    ELSE IF Contains(last, <<"d","e","l","i","v","e","r","y">>) THEN "out_for_delivery"
    ELSE IF ContainsAny(last, { <<"t","r","a","n","s","i","t">>, <<"s","o","r","t","e","d">>, <<"p","r","o","c","e","s","s","e","d">> }) THEN "in_transit"
    ELSE "unknown"

dpd_embedded_shipment(parcel_number, tracking_events) ==
    Shipment(parcel_number, s_dpd,
             IF tracking_events # <<>>
             THEN dpd_embedded_status(Lower(tracking_events[Len(tracking_events)].status))
             ELSE "unknown",
             tracking_events)

dpd_embedded_events(events, clock) ==
    [i \in 1..Len(events) |-> dpd_embedded_event(events[i], ClockAt(clock, i))]

\* dpd._normalize_dpd_embedded: the events keep the order of the body
normalize_dpd_embedded(obj, parcel_number, clock) ==
    dpd_embedded_shipment(parcel_number, dpd_embedded_events(find_first_events_list(obj), clock))

\* a track that trusts the generic normalizer whatever the structured one did
dpd_response_GenericOnly(plc, resp, parcel_number, clock) ==
    NmRet(TrackingResponse(<<normalize_dpd_embedded(resp, parcel_number, clock)>>, s_dpd))

\* dpd.track after the request: the Content-Type test, the structured
\* normalizer, and the generic one when the structured one raises; the generic
\* one raises on no body, so the innermost except block is not entered
dpd_response(plc, resp, parcel_number, clock) ==
    IF plc.exc = "none" THEN NmRet(TrackingResponse(<<plc.shipment>>, s_dpd))
    ELSE NmRet(TrackingResponse(<<normalize_dpd_embedded(resp, parcel_number, clock)>>, s_dpd))

dpd_track(resp, parcel_number, clock) ==
    IF ~resp.json THEN NmRet(TrackingResponse(<<>>, s_dpd))
    ELSE dpd_response(normalize_dpd_plc_json(resp, parcel_number, clock), resp,
                      parcel_number, clock)

\* a transport that took the method and the data of a request as well
GetWithRetriesKeywords_WithMethod ==
    {"params", "headers", "timeout", "max_attempts", "backoff_base", "status_forcelist",
     "method", "data"}

\* the keyword parameters of utils.get_with_retries besides url
GetWithRetriesKeywords ==
    {"params", "headers", "timeout", "max_attempts", "backoff_base", "status_forcelist"}

\* the keyword parameters of utils.async_get_with_retries besides url
AsyncGetWithRetriesKeywords == GetWithRetriesKeywords \cup {"client"}

\* the keywords ecoscooting._call_cainiao_api passes to get_with_retries
CainiaoKeywords == {"method", "data", "headers"}

\* str(e) of the TypeError Python raises for a keyword the function fn does not declare
UnexpectedKeywordText(fn) == fn \o <<"(",")"," ","g","o","t"," ","a","n"," ","u","n","e","x","p","e","c","t","e","d"," ","k","e","y","w","o","r","d"," ","a","r","g","u","m","e","n","t"," ","'","m","e","t","h","o","d","'">>

\* ecoscooting._call_cainiao_api: a call with a keyword the function does not
\* declare raises TypeError, which is re-raised as RuntimeError with its text
call_cainiao_api(body) ==
    IF CainiaoKeywords \subseteq GetWithRetriesKeywords
    THEN [exc |-> "none", msg |-> <<>>, data |-> body]
    ELSE [exc |-> "RuntimeError",
          msg |-> <<"F","a","i","l","e","d"," ","t","o"," ","c","a","l","l"," ","C","a","i","n","i","a","o"," ","A","P","I",":"," ">> \o UnexpectedKeywordText(<<"g","e","t","_","w","i","t","h","_","r","e","t","r","i","e","s">>),
          data |-> body]

\* the event of one status: ts is what _parse_ecoscooting_date did
ecoscooting_event_of(event_data, ts) ==
    IF PRaised(ts) THEN [exc |-> ts.exc, event |-> None]
    ELSE IF event_data.f_text = None THEN [exc |-> "KeyError", event |-> None]
    ELSE [exc |-> "none",
          event |-> TrackingEvent(ts.dt, event_data.f_text, None, event_data.f_text2, None, None)]

\* ecoscooting.track, the try block, one status
ecoscooting_event(event_data, clock) ==
    IF event_data.f_ts = None THEN [exc |-> "KeyError", event |-> None]
    ELSE ecoscooting_event_of(event_data, parse_ecoscooting_date(event_data.f_ts, clock))

\* ecoscooting.track, the except block: details is str(e)
ecoscooting_error_response(tracking_number, details, clock) ==
    TrackingResponse(
        <<Shipment(tracking_number, s_ecoscooting, "unknown",
                   <<TrackingEvent(NowUtc(clock), <<"E","r","r","o","r"," ","f","e","t","c","h","i","n","g"," ","t","r","a","c","k","i","n","g"," ","d","a","t","a">>,
                                   None, details, None, None)>>)>>, s_ecoscooting)

\* str(e) in the except block: the text of _call_cainiao_api's RuntimeError, of
\* the RuntimeError for success != "true", or of the exception of a conversion
ecoscooting_error_details(called) ==
    IF called.exc # "none" THEN called.msg
    ELSE IF ~called.data.success THEN <<"A","P","I"," ","r","e","t","u","r","n","e","d"," ","s","u","c","c","e","s","s","=","f","a","l","s","e">>
    ELSE IF called.data.container = "null" THEN <<"'","N","o","n","e","T","y","p","e","'"," ","o","b","j","e","c","t"," ","i","s"," ","n","o","t"," ","i","t","e","r","a","b","l","e">>
    ELSE <<"'","d","a","t","e","t","i","m","e","'">>

\* the try block after the call: converted holds what each status became
ecoscooting_response(called, converted, tracking_number, clock) ==
    IF \/ called.exc # "none"
       \/ ~called.data.success
       \/ called.data.container = "null"
       \/ \E i \in DOMAIN converted : converted[i].exc # "none"
    THEN NmRet(ecoscooting_error_response(tracking_number, ecoscooting_error_details(called),
                                          ClockAt(clock, Len(converted) + 1)))
    ELSE NmRet(TrackingResponse(
            <<Shipment(tracking_number, s_ecoscooting,
                       IF converted # <<>>
                       THEN map_ecoscooting_status(OrEmpty(called.data.top_events[1].f_code))
                       ELSE "unknown",
                       [i \in DOMAIN converted |-> converted[i].event])>>,
            s_ecoscooting))

ecoscooting_events(statuses, clock) ==
    [i \in 1..Len(statuses) |-> ecoscooting_event(statuses[i], ClockAt(clock, i))]

\* ecoscooting.track: every exception of the try block ends in the except block
ecoscooting_track(body, tracking_number, clock) ==
    ecoscooting_response(call_cainiao_api(body),
                         ecoscooting_events(body.top_events, clock), tracking_number, clock)

-----------------------------------------------------------------------------
(* cli.py: cmd_track and _fallback_response                                *)

\* An exception object.  config marks the missing-credential errors the
\* adapters raise; status, ctype, body, text describe the response an
\* HTTPStatusError carries.
Exc(cls) == [cls |-> cls, config |-> FALSE, status |-> "", ctype |-> "", body |-> "none", text |-> FALSE]
ConfigExc == [Exc("RuntimeError") EXCEPT !.config = TRUE]
HttpStatusExc(status, ctype, body, text) ==
    [cls |-> "HTTPStatusError", config |-> FALSE, status |-> status, ctype |-> ctype,
     body |-> body, text |-> text]
NoExc == Exc("none")

\* `except Exception` catches every class but the BaseException-only ones
IsException(cls) == cls \notin {"KeyboardInterrupt", "SystemExit", "none"}
\* isinstance(exc, httpx.HTTPStatusError)
IsHTTPStatusError(cls) == cls = "HTTPStatusError"
\* isinstance(exc, httpx.HTTPError)
IsHTTPError(cls) == cls \in {"HTTPStatusError", "ConnectError", "ReadTimeout"}

\* the credential check written as `if api_key is None`
DhlMissingCredential_NoneOnly(env) == env.DHL_API_KEY = None

\* the GLS check written on the client id alone
GlsMissingCredential_IdOnly(env) == ~Truthy(env.GLS_CLIENT_ID)

\* dhl.track / dhl.track_async: `if not api_key: raise RuntimeError(...)`
DhlMissingCredential(env) == ~Truthy(env.DHL_API_KEY)
\* gls.track / gls.track_async: `if not client_id or not client_secret: raise RuntimeError(...)`
GlsMissingCredential(env) == ~Truthy(env.GLS_CLIENT_ID) \/ ~Truthy(env.GLS_CLIENT_SECRET)

Returned(resp) == [kind |-> "return", exc |-> NoExc, resp |-> resp]
Threw(e) == [kind |-> "raise", exc |-> e, resp |-> NoResponse]

\* responses a successful adapter call hands back
SampleEvent == TrackingEvent(DT(FALSE, 20339, 43200, 0), <<"Delivered">>, None, None, None, None)
SampleResponses(carrier) ==
    { TrackingResponse(<<>>, carrier),
      TrackingResponse(<<Shipment("PARCEL1", carrier, "delivered", <<SampleEvent>>)>>, carrier) }

\* the bodies an error response can carry: Content-Type, JSON shape, text present
ErrorBodies ==
    { <<"application/json", "dict_message">>, <<"application/json", "dict_code">>,
      <<"application/json", "dict_empty">>, <<"application/json", "list">>,
      <<"application/json", "invalid">>, <<"text/html", "none">>, <<"", "none">> }

\* what the network and the normalization can do once the request is built:
\* a response, an HTTP status error, a transport error, a JSON decoding
\* error, a TypeError out of the normalize function, or an interrupt
NetOutcomes(carrier) ==
    { Returned(r) : r \in SampleResponses(carrier) }
    \cup { Threw(HttpStatusExc(st, b[1], b[2], t)) :
             st \in {"401", "404", "500"}, b \in ErrorBodies, t \in BOOLEAN }
    \cup { Threw(Exc(c)) : c \in {"ConnectError", "JSONDecodeError", "TypeError", "KeyboardInterrupt"} }

\* PROVIDERS[args.carrier](args.code, language=lang_norm): the credential
\* check comes first in dhl.track and gls.track; gls then fetches a token
TrackerOutcomes(carrier, env) ==
    IF carrier = s_dhl /\ DhlMissingCredential(env) THEN {Threw(ConfigExc)}
    ELSE IF carrier = s_gls /\ GlsMissingCredential(env) THEN {Threw(ConfigExc)}
    ELSE IF carrier = s_gls THEN NetOutcomes(carrier) \cup {Threw(Exc("RuntimeError"))}
    ELSE NetOutcomes(carrier)

\* status_text of _fallback_response
FallbackStatusText(exc) ==
    IF IsHTTPStatusError(exc.cls) THEN <<"HTTP ", exc.status, " while fetching">>
    ELSE IF IsHTTPError(exc.cls) THEN <<"HTTP error during tracking">>
    ELSE <<"Error during tracking">>

\* provider_error_code / provider_error_desc / body_snippet of _fallback_response:
\* the whole extraction sits in one try block, so a body that is no dict (or is
\* no JSON at all) leaves all three None
FallbackBodyInfo(exc) ==
    IF HasC(<<exc.ctype>>, "application/json")
    THEN CASE exc.body = "dict_message" -> [code |-> None, desc |-> <<"message">>, snippet |-> None]
           [] exc.body = "dict_code"    -> [code |-> <<"code">>, desc |-> None, snippet |-> <<"{...}">>]
           [] exc.body = "dict_empty"   -> [code |-> None, desc |-> None, snippet |-> <<"{}">>]
           [] OTHER                     -> [code |-> None, desc |-> None, snippet |-> None]
    ELSE [code |-> None, desc |-> None, snippet |-> IF exc.text THEN <<"text">> ELSE None]

\* details of _fallback_response
FallbackDetails(exc) ==
    IF IsHTTPStatusError(exc.cls)
    THEN LET info == FallbackBodyInfo(exc)
         IN  <<"URL: ">>
             \o (IF Truthy(info.code) THEN <<"Provider error code: ">> ELSE <<>>)
             \o (IF Truthy(info.desc) THEN <<"Provider error: ">> ELSE <<>>)
             \o (IF Truthy(info.snippet) /\ ~Truthy(info.desc) THEN <<"Body: ">> ELSE <<>>)
    ELSE <<exc.cls, ": ", "message">>

\* _fallback_response returning an empty response instead of the diagnostic shipment
FallbackResponse_NoShipment(carrier, code, exc, clock) == TrackingResponse(<<>>, carrier)

\* _fallback_response(carrier, code, exc)
FallbackResponse(carrier, code, exc, clock) ==
    TrackingResponse(
        << Shipment(code, carrier, "unknown",
                    << TrackingEvent(NowNaive(clock), FallbackStatusText(exc), None,
                                     FallbackDetails(exc),
                                     IF IsHTTPStatusError(exc.cls) THEN exc.status ELSE None,
                                     IF IsHTTPError(exc.cls) THEN <<"url">> ELSE None) >>) >>,
        carrier)

\* the try/except applied in strict mode too
Catches_IgnoresStrict(strict, exc) == IsException(exc.cls)

\* cmd_track lines 24-32: an exception of the tracker call is caught only in
\* the non-strict branch, and only by `except Exception`
Catches(strict, exc) == ~strict /\ IsException(exc.cls)

\* cmd_track line 46
ExitCode(strict, error_occurred) == IF ~strict /\ error_occurred THEN 1 ELSE 0

Carriers == {s_correos, s_ctt, s_dhl, s_dpd, s_gls}

EnvKey == <<"k","e","y">>

CliIdle ==
    /\ cli_pc = "idle"
    /\ cli_args = [carrier |-> s_ctt, code |-> "PARCEL1", language |-> None,
                   strict |-> FALSE, json |-> FALSE, verbose |-> FALSE]
    /\ cli_env = [DHL_API_KEY |-> None, GLS_CLIENT_ID |-> None, GLS_CLIENT_SECRET |-> None,
                  lang |-> <<None, None, None, None>>]
    /\ cli_outcome = Returned(NoResponse)
    /\ cli_lang = <<None, None>>
    /\ cli_response = NoResponse
    /\ cli_error = FALSE
    /\ cli_stdout = <<>>
    /\ cli_exit = -1
    /\ cli_exc = NoExc

CliInit ==
    /\ cli_pc = "start"
    /\ cli_args \in [carrier : Carriers, code : {"PARCEL1"}, language : {None, s_es, s_xx_ZZ},
                     strict : BOOLEAN, json : BOOLEAN, verbose : BOOLEAN]
    /\ cli_env \in [DHL_API_KEY : {None, <<>>, EnvKey}, GLS_CLIENT_ID : {None, EnvKey},
                    GLS_CLIENT_SECRET : {None, EnvKey},
                    lang : { <<None, None, None, None>>, <<s_de, None, None, None>> }]
    /\ cli_outcome = Returned(NoResponse)
    /\ cli_lang = <<None, None>>
    /\ cli_response = NoResponse
    /\ cli_error = FALSE
    /\ cli_stdout = <<>>
    /\ cli_exit = -1
    /\ cli_exc = NoExc

\* cmd_track lines 20-32: resolve the language, call the tracker, and in
\* non-strict mode turn an exception into the fallback response
CliTrack ==
    /\ cli_pc = "start"
    /\ LET lang == normalize_language(cli_args.language, cli_args.carrier, cli_env.lang) IN
       IF Raised(lang)
       THEN /\ cli_exc' = Exc(lang.exc)
            /\ cli_pc' = "raised"
            /\ UNCHANGED <<cli_outcome, cli_lang, cli_response, cli_error>>
       ELSE /\ cli_lang' = lang.val
            /\ \E o \in TrackerOutcomes(cli_args.carrier, cli_env), clock \in ClockValues :
                 /\ cli_outcome' = o
                 /\ IF o.kind = "return"
                    THEN /\ cli_response' = o.resp
                         /\ cli_pc' = "tracked"
                         /\ UNCHANGED <<cli_error, cli_exc>>
                    ELSE IF Catches(cli_args.strict, o.exc)
                    THEN /\ cli_response' = FallbackResponse(cli_args.carrier, cli_args.code, o.exc, clock)
                         /\ cli_error' = TRUE
                         /\ cli_pc' = "tracked"
                         /\ UNCHANGED cli_exc
                    ELSE /\ cli_exc' = o.exc
                         /\ cli_pc' = "raised"
                         /\ UNCHANGED <<cli_response, cli_error>>
    /\ UNCHANGED <<cli_args, cli_env, cli_stdout, cli_exit>>

\* cmd_track lines 34-37: the verbose note about a normalized language
CliNote ==
    /\ cli_pc = "tracked"
    /\ cli_stdout' = IF cli_args.verbose /\ ~cli_args.json /\ Truthy(cli_lang[2])
                        /\ cli_lang[2] # cli_lang[1]
                     THEN Append(cli_stdout, [fmt |-> "note", resp |-> NoResponse])
                     ELSE cli_stdout
    /\ cli_pc' = "noted"
    /\ UNCHANGED <<cli_args, cli_env, cli_outcome, cli_lang, cli_response, cli_error, cli_exit, cli_exc>>

\* cmd_track lines 38-45: print the response as JSON or as text
CliPrint ==
    /\ cli_pc = "noted"
    /\ cli_stdout' = Append(cli_stdout, [fmt |-> IF cli_args.json THEN "json" ELSE "human",
                                         resp |-> cli_response])
    /\ cli_pc' = "printed"
    /\ UNCHANGED <<cli_args, cli_env, cli_outcome, cli_lang, cli_response, cli_error, cli_exit, cli_exc>>

\* cmd_track line 46
CliReturn ==
    /\ cli_pc = "printed"
    /\ cli_exit' = ExitCode(cli_args.strict, cli_error)
    /\ cli_pc' = "returned"
    /\ UNCHANGED <<cli_args, cli_env, cli_outcome, cli_lang, cli_response, cli_error, cli_stdout, cli_exc>>

-----------------------------------------------------------------------------
(* utils.py: get_with_retries and async_get_with_retries                   *)

\* max_attempts: int = 3
DefaultMaxAttempts == 3

\* status_forcelist = (500, 502, 503, 504)
status_forcelist == {500, 502, 503, 504}

\* the largest max_attempts argument tried
MaxAttemptsArg == 3

\* what one client.get can do: a response with a status, or a transport
\* error (a subclass of httpx.HTTPError that is no HTTPStatusError)
ResponseStatuses == {200, 302, 401, 403, 404, 429, 500, 501, 502, 503, 504}
TransportErrors == {"ConnectError", "ReadTimeout"}

\* Response.raise_for_status(): raises for 4xx and 5xx, passes 2xx; whether a
\* 3xx is rejected depends on the httpx release, so both are possible
RaiseForStatusOutcomes(st) ==
    IF st >= 400 THEN {TRUE} ELSE IF st >= 300 THEN {TRUE, FALSE} ELSE {FALSE}

GotStatus(st, rejects) == [kind |-> "status", status |-> st, cls |-> "none", rejects |-> rejects]
GotError(cls) == [kind |-> "error", status |-> 0, cls |-> cls, rejects |-> FALSE]

RequestOutcomes ==
    UNION { { GotStatus(st, rj) : rj \in RaiseForStatusOutcomes(st) } : st \in ResponseStatuses }
    \cup { GotError(c) : c \in TransportErrors }

RtResult(exc, st, attempt) == [exc |-> exc, status |-> st, attempt |-> attempt]
RtNoResult == RtResult("pending", 0, 0)

InForcelist_AllErrors(st) == st >= 400

\* `... in status_forcelist`
InForcelist(st) == st \in status_forcelist

AttemptLeft_OffByOne(attempt, max_attempts) == attempt <= max_attempts

\* `attempt < max_attempts`: another attempt is left
AttemptLeft(attempt, max_attempts) == attempt < max_attempts

\* backoff_base * (2 ** (attempt - 1)), in units of backoff_base
RECURSIVE Pow2(_)
Pow2(n) == IF n <= 0 THEN 1 ELSE 2 * Pow2(n - 1)
Backoff(attempt) == Pow2(attempt - 1)

RtIdle ==
    /\ rt_pc = "idle"
    /\ rt_async = FALSE
    /\ rt_max_attempts = DefaultMaxAttempts
    /\ rt_attempt = 0
    /\ rt_last_exc = "None"
    /\ rt_requests = <<>>
    /\ rt_sleeps = <<>>
    /\ rt_result = RtNoResult

RtInit ==
    /\ rt_pc = "loop"
    /\ rt_async \in BOOLEAN
    /\ rt_max_attempts \in 0..MaxAttemptsArg
    /\ rt_attempt = 0
    /\ rt_last_exc = "None"
    /\ rt_requests = <<>>
    /\ rt_sleeps = <<>>
    /\ rt_result = RtNoResult

\* one iteration of `while attempt < max_attempts` (the same statements in
\* get_with_retries and in async_get_with_retries): issue the request, then
\* sleep and continue, return the response, or raise
RtAttempt ==
    /\ rt_pc = "loop"
    /\ AttemptLeft(rt_attempt, rt_max_attempts)
    /\ \E o \in RequestOutcomes :
        LET attempt == rt_attempt + 1 IN
        /\ rt_attempt' = attempt
        /\ rt_requests' = Append(rt_requests, o)
        /\ IF o.kind = "status"
           THEN /\ rt_last_exc' = rt_last_exc
                /\ IF InForcelist(o.status) /\ AttemptLeft(attempt, rt_max_attempts)
                   THEN \* time.sleep(...); continue
                        /\ rt_sleeps' = Append(rt_sleeps, Backoff(attempt))
                        /\ rt_pc' = "loop"
                        /\ rt_result' = rt_result
                   ELSE IF o.rejects
                   THEN \* raise_for_status() raised; `except httpx.HTTPStatusError`
                        IF InForcelist(o.status) /\ AttemptLeft(attempt, rt_max_attempts)
                        THEN /\ rt_sleeps' = Append(rt_sleeps, Backoff(attempt))
                             /\ rt_pc' = "loop"
                             /\ rt_result' = rt_result
                        ELSE /\ rt_sleeps' = rt_sleeps
                             /\ rt_pc' = "raised"
                             /\ rt_result' = RtResult("HTTPStatusError", o.status, attempt)
                   ELSE \* return resp
                        /\ rt_sleeps' = rt_sleeps
                        /\ rt_pc' = "returned"
                        /\ rt_result' = RtResult("none", o.status, attempt)
           ELSE \* `except httpx.HTTPError as e`
                /\ rt_last_exc' = o.cls
                /\ IF AttemptLeft(attempt, rt_max_attempts)
                   THEN /\ rt_sleeps' = Append(rt_sleeps, Backoff(attempt))
                        /\ rt_pc' = "loop"
                        /\ rt_result' = rt_result
                   ELSE /\ rt_sleeps' = rt_sleeps
                        /\ rt_pc' = "raised"
                        /\ rt_result' = RtResult(o.cls, 0, attempt)
    /\ UNCHANGED <<rt_async, rt_max_attempts>>

\* the statements after the loop: `assert last_exc is not None; raise last_exc`.
\* With assertions compiled out (python -O) `raise None` is a TypeError.
RtExhausted ==
    /\ rt_pc = "loop"
    /\ ~AttemptLeft(rt_attempt, rt_max_attempts)
    /\ IF rt_last_exc = "None"
       THEN \E e \in {"AssertionError", "TypeError"} : rt_result' = RtResult(e, 0, 0)
       ELSE rt_result' = RtResult(rt_last_exc, 0, rt_attempt)
    /\ rt_pc' = "raised"
    /\ UNCHANGED <<rt_async, rt_max_attempts, rt_attempt, rt_last_exc, rt_requests, rt_sleeps>>

-----------------------------------------------------------------------------
(* Specification SpecLang: one call of normalize_language                  *)

MaxTokenLen == 2

LangAlphabet == {"e", "n", "s", "E", "x", " ", "-"}

RECURSIVE SeqsUpTo(_, _)
SeqsUpTo(S, n) ==
    IF n = 0 THEN {<<>>}
    ELSE LET shorter == SeqsUpTo(S, n - 1)
         IN  shorter \cup { Append(t, c) : t \in shorter, c \in S }

LangSamples == {s_en, s_de, s_es, <<"x","x">>, <<"E","S">>, <<"p","l">>}
RegionSamples == {<<"U","S">>, <<"D","E">>, <<"Z","Z">>, <<"e","s">>, <<"P","L">>}

\* the language tokens tried: None, every short string, and lang-REGION forms
LangTokens ==
    {None}
    \cup SeqsUpTo(LangAlphabet, MaxTokenLen)
    \cup { l \o <<sep>> \o r : l \in LangSamples, sep \in {"-", "_"}, r \in RegionSamples }

LangProviders == {None, s_dpd, s_gls, s_dhl, s_correos, s_ctt, <<"D","H","L">>}

\* environments: <<MLT_DEFAULT_LANGUAGE, MYLITTLETRACKER_DEFAULT_LANGUAGE, LANG, LC_ALL>>
LangEnvs ==
    { <<None, None, None, None>>,
      <<None, None, <<"C",".","U","T","F","-","8">>, None>>,
      <<None, None, <<"e","s","_","E","S",".","U","T","F","-","8">>, None>>,
      <<s_de, None, <<"e","s","_","E","S",".","U","T","F","-","8">>, None>>,
      <<<<"z","z">>, s_fr, None, None>>,
      <<<<" ", " ">>, None, None, <<"i","t","_","I","T">>>>,
      <<<<>>, None, <<"n","l","-","N","L">>, None>> }

LgInit ==
    /\ lg_pc = "init"
    /\ lg_language \in LangTokens
    /\ lg_provider \in LangProviders
    /\ lg_env \in LangEnvs
    /\ lg_result = Ret(None)

\* lang_norm, lang_from = normalize_language(args.language, args.carrier)
LangResolve ==
    /\ lg_pc = "init"
    /\ lg_result' = normalize_language(lg_language, lg_provider, lg_env)
    /\ lg_pc' = "done"
    /\ UNCHANGED <<lg_language, lg_provider, lg_env>>

-----------------------------------------------------------------------------
(* One call of a datetime parser                                           *)

Parsers == {"parse_dt_iso", "_parse_correos_datetime", "_parse_gls_datetime",
            "_parse_iso_date", "_parse_dpd_status_date", "_parse_ecoscooting_date"}

\* the texts the parsers are tried on: dates, times and zone suffixes in the
\* carriers' notations, put together in every combination, and odd strings
IsoDates == { <<"2","0","2","5","-","0","9","-","0","6">>, <<"2","0","2","5","-","0","2","-","3","0">>, <<"2","0","2","5","-","1","3","-","0","1">>, <<"0","0","0","0","-","0","1","-","0","1">> }
IsoTimes == { <<"1","4",":","0","5",":","0","3">>, <<"1","4",":","0","5",":","0","3",".","3","9","9">>, <<"2","3",":","5","9",":","5","9">>, <<"2","4",":","0","0",":","0","0">> }
ZoneSuffixes == { <<>>, <<"Z">>, <<"+","0","2","0","0">>, <<"+","0","2",":","0","0">>, <<"-","0","5","3","0">>, <<" ","U","T","C","+","1">>, <<" ","U","T","C","+","0">>, <<" ","U","T","C","-","1","1">>, <<" ","U","T","C","+","2","5">> }
SlashDates == { <<"0","8","/","0","9","/","2","0","2","5">>, <<"8","/","9","/","2","0","2","5">>, <<"3","1","/","0","2","/","2","0","2","5">> }
DotDates == { <<"0","9",".","0","9",".","2","0","2","5">>, <<"3","1",".","0","4",".","2","0","2","5">> }
ClockTimes == { <<"1","1",":","4","8">>, <<"1","1",":","4","8",":","0","3">>, <<"7",":","0","5">>, <<"2","5",":","0","0">> }
OddStrings == { <<>>, <<" ">>, <<"n","/","a">>, <<"Z">>, <<"+","0","2","0","0">>, <<"2","0","2","5">> }

DateInputs ==
    {None} \cup OddStrings \cup IsoDates \cup SlashDates
    \cup { d \o sep \o t \o z : d \in IsoDates, sep \in {<<"T">>, <<" ">>}, t \in IsoTimes,
                                z \in ZoneSuffixes }
    \cup { d \o sep \o t : d \in DotDates, sep \in {<<",", " ">>, <<" ">>}, t \in ClockTimes }

TimeInputs == {None, <<>>} \cup ClockTimes

PsIdle ==
    /\ ps_pc = "idle"
    /\ ps_fn = "parse_dt_iso"
    /\ ps_arg = None
    /\ ps_arg2 = None
    /\ ps_clock = <<0, 0>>
    /\ ps_result = PNone

PsInit ==
    /\ ps_pc = "call"
    /\ ps_fn \in Parsers
    /\ ps_arg \in DateInputs
    /\ ps_arg2 \in IF ps_fn = "_parse_correos_datetime" THEN TimeInputs ELSE {None}
    /\ ps_clock \in ClockValues
    /\ ps_result = PNone

PsReturn(r) ==
    /\ ps_result' = r
    /\ ps_pc' = "done"
    /\ UNCHANGED <<ps_fn, ps_arg, ps_arg2, ps_clock>>

CallParseDtIso ==
    ps_pc = "call" /\ ps_fn = "parse_dt_iso" /\ PsReturn(parse_dt_iso(ps_arg))
CallParseCorreosDatetime ==
    ps_pc = "call" /\ ps_fn = "_parse_correos_datetime"
        /\ PsReturn(parse_correos_datetime(ps_arg, ps_arg2, ps_clock))
CallParseGlsDatetime ==
    ps_pc = "call" /\ ps_fn = "_parse_gls_datetime" /\ PsReturn(parse_gls_datetime(ps_arg))
CallParseIsoDate ==
    ps_pc = "call" /\ ps_fn = "_parse_iso_date" /\ PsReturn(parse_iso_date(ps_arg))
CallParseDpdStatusDate ==
    ps_pc = "call" /\ ps_fn = "_parse_dpd_status_date" /\ PsReturn(parse_dpd_status_date(ps_arg))
CallParseEcoscootingDate ==
    ps_pc = "call" /\ ps_fn = "_parse_ecoscooting_date"
        /\ PsReturn(parse_ecoscooting_date(ps_arg, ps_clock))

-----------------------------------------------------------------------------
(* One normalization: the bodies handed to the adapters                     *)

\* the longest events list of a body
MaxEvents == 2

\* the tracking number the caller asked for
AskedNumber == <<"P","K","G","1">>

NoFlags(ts, ts2, text, text2, code) == RawEvent(ts, ts2, text, text2, code, FALSE, FALSE)

\* CTT sends item_event_datetime with a Z, reported_delivery_date style dates
\* without a zone; a timestamp can be absent or unreadable
CttRawEvents ==
    { NoFlags(<<"2","0","2","5","-","0","9","-","0","6","T","1","4",":","0","5",":","0","3",".","3","9","9","Z">>, <<"2","0","2","5","-","0","9","-","0","6","T","1","4",":","0","5",":","0","3",".","3","9","9","+","0","0",":","0","0">>,
              <<"P","e","n","d","i","e","n","t","e"," ","d","e"," ","r","e","c","e","p","c","i","o'","n"," ","e","n"," ","C","T","T"," ","E","x","p","r","e","s","s">>, <<"S","T","A","T","U","S">>, <<"0","0","0","0">>),
      NoFlags(<<"2","0","2","5","-","0","9","-","1","6","T","0","6",":","5","9",":","4","0",".","1","0","2","Z">>, None, <<"E","n","t","r","e","g","a"," ","h","o","y">>, <<"S","T","A","T","U","S">>, <<"1","5","0","0">>),
      NoFlags(None, <<"2","0","2","5","-","0","9","-","1","7">>, <<"E","n"," ","t","r","a'","n","s","i","t","o">>, None, None),
      NoFlags(<<"2","0","2","5","-","0","9","-","0","5","T","0","8",":","0","0",":","0","0">>, None, None, <<"E","n","t","r","e","g","a","d","o">>, None),
      NoFlags(<<"n","/","a">>, None, None, None, None),
      NoFlags(None, None, <<"E","n","t","r","e","g","a","d","o">>, None, None),
      NoFlags(<<"2","0","2","5","-","0","9","-","1","5","T","1","0",":","0","0",":","0","0",".","0","0","0","Z">>, None, <<"E","n","t","r","e","g","a","d","o"," ","e","n"," ","c","e","n","t","r","o"," ","d","e"," ","t","r","a'","n","s","i","t","o">>, <<"S","T","A","T","U","S">>, <<"1","0","0","0">>) }

CorreosRawEvents ==
    { NoFlags(<<"0","8","/","0","9","/","2","0","2","5">>, <<"1","1",":","4","8">>, <<"E","n","t","r","e","g","a","d","o">>, <<"S","u"," ","e","n","v","i'","o"," ","e","s","t","a'"," ","e","n","t","r","e","g","a","d","o">>, <<"I","0","1","0","0","0","0","V">>),
      NoFlags(<<"0","6","/","0","9","/","2","0","2","5">>, <<"1","1",":","4","8",":","0","3">>, <<"E","n"," ","t","r","a'","n","s","i","t","o">>, None, None),
      NoFlags(<<"0","5","/","0","9","/","2","0","2","5">>, None, <<"A","d","m","i","t","i","d","o">>, None, None),
      NoFlags(<<"3","1","/","0","2","/","2","0","2","5">>, <<"0","9",":","0","0">>, <<"E","n"," ","r","e","p","a","r","t","o">>, None, None),
      NoFlags(None, None, None, None, None) }

DhlRawEvents ==
    { NoFlags(<<"2","0","2","5","-","0","9","-","0","6","T","1","4",":","0","5",":","0","3","+","0","2",":","0","0">>, None, <<"Z","N">>,
              <<"T","h","e"," ","s","h","i","p","m","e","n","t"," ","h","a","s"," ","b","e","e","n"," ","l","o","a","d","e","d"," ","o","n","t","o"," ","t","h","e"," ","d","e","l","i","v","e","r","y"," ","v","e","h","i","c","l","e">>, <<"t","r","a","n","s","i","t">>),
      NoFlags(<<"2","0","2","5","-","0","9","-","0","8","T","0","9",":","0","0",":","0","0">>, None, <<"D","e","l","i","v","e","r","e","d">>, None, <<"d","e","l","i","v","e","r","e","d">>),
      NoFlags(<<"2","0","2","5","-","0","9","-","0","5","T","0","8",":","0","0",":","0","0">>, None, <<"I","n"," ","t","r","a","n","s","i","t">>, None, None),
      NoFlags(<<"2","0","2","5","-","0","9","-","0","7">>, None, None, <<"S","h","i","p","m","e","n","t"," ","i","n","f","o","r","m","a","t","i","o","n"," ","r","e","c","e","i","v","e","d">>, <<"p","r","e","-","t","r","a","n","s","i","t">>),
      NoFlags(<<"n","/","a">>, None, <<"C","u","s","t","o","m","s"," ","f","a","i","l","e","d">>, None, <<"u","n","k","n","o","w","n">>),
      NoFlags(None, None, None, None, None),
      NoFlags(<<"2","0","2","5","-","0","9","-","0","9","T","0","7",":","3","0",":","0","0">>, None, <<"O","u","t"," ","f","o","r"," ","d","e","l","i","v","e","r","y">>, <<"T","h","e"," ","s","h","i","p","m","e","n","t"," ","i","s"," ","w","i","t","h"," ","t","h","e"," ","c","o","u","r","i","e","r">>, <<"t","r","a","n","s","i","t">>) }

GlsRawEvents ==
    { NoFlags(<<"2","0","2","4","-","1","0","-","1","1","T","1","5",":","2","4",":","5","2","+","0","2","0","0">>, None,
              <<"T","h","e"," ","p","a","r","c","e","l"," ","w","a","s"," ","p","r","o","v","i","d","e","d"," ","b","y"," ","t","h","e"," ","s","e","n","d","e","r"," ","f","o","r"," ","c","o","l","l","e","c","t","i","o","n"," ","b","y"," ","G","L","S",".">>, None,
              <<"I","N","T","I","A","L",".","E","4","8","_","D","A","T","A">>),
      NoFlags(<<"2","0","2","4","-","1","0","-","1","1","T","1","5",":","2","4",":","5","1","+","0","2","0","0">>, None, None, None, <<"I","N","T","I","A","L",".","P","R","E","A","D","V","I","C","E">>),
      NoFlags(<<"2","0","2","4","-","1","0","-","1","2","T","0","8",":","0","0",":","0","0">>, None, <<"D","e","l","i","v","e","r","e","d">>, None, None),
      NoFlags(<<"2","0","2","4","-","1","0","-","1","0","T","0","8",":","0","0",":","0","0">>, None, <<"I","n"," ","t","r","a","n","s","i","t">>, None, None),
      NoFlags(<<"n","/","a">>, None, None, None, None),
      NoFlags(None, None, <<"T","h","e"," ","p","a","r","c","e","l"," ","i","s"," ","i","n"," ","d","e","l","i","v","e","r","y">>, None, None) }

DpdScanEvents ==
    { NoFlags(<<"2","0","2","5","-","0","9","-","0","8","T","0","9",":","0","0",":","0","0">>, None, <<"D","e","l","i","v","e","r","e","d">>, None, None),
      NoFlags(<<"2","0","2","5","-","0","9","-","0","6","T","1","4",":","0","5",":","0","3">>, None, None, <<"I","n"," ","t","r","a","n","s","i","t">>, None),
      NoFlags(<<"2","0","2","5","-","0","9","-","0","7","T","1","0",":","0","0",":","0","0","Z">>, None, <<"A","t"," ","p","a","r","c","e","l"," ","d","e","l","i","v","e","r","y"," ","c","e","n","t","r","e">>, None, None),
      NoFlags(<<"0","5","/","0","9","/","2","0","2","5"," ","1","1",":","4","8">>, None, <<"O","r","d","e","r"," ","i","n","f","o","r","m","a","t","i","o","n"," ","h","a","s"," ","b","e","e","n"," ","t","r","a","n","s","m","i","t","t","e","d">>, None, None),
      NoFlags(None, None, None, None, None) }

DpdStatusInfos ==
    { <<>>,
      << RawEvent(<<"0","5",".","0","9",".","2","0","2","5",","," ","1","1",":","1","9">>, None, <<"T","h","e"," ","p","a","r","c","e","l"," ","i","s"," ","o","n"," ","t","h","e"," ","w","a","y">>, <<"O","n"," ","t","h","e"," ","r","o","a","d">>,
                  <<"O","N","_","T","H","E","_","R","O","A","D">>, TRUE, FALSE),
         RawEvent(<<"0","9",".","0","9",".","2","0","2","5",","," ","0","8",":","0","2">>, None, None, <<"D","e","l","i","v","e","r","e","d">>, <<"D","E","L","I","V","E","R","E","D">>, TRUE, TRUE) >>,
      << RawEvent(<<"0","9",".","0","9",".","2","0","2","5"," ","0","8",":","0","2">>, None, None, None, <<"A","T","_","D","E","L","I","V","E","R","Y","_","D","E","P","O","T">>, TRUE, FALSE),
         RawEvent(<<"0","5",".","0","9",".","2","0","2","5",","," ","1","1",":","1","9">>, None, None, None, <<"A","C","C","E","P","T","E","D">>, TRUE, FALSE),
         RawEvent(None, None, None, <<"D","e","l","i","v","e","r","e","d">>, <<"D","E","L","I","V","E","R","E","D">>, FALSE, FALSE) >>,
      << RawEvent(None, None, None, <<"P","i","c","k","-","u","p">>, <<"P","I","C","K","U","P","_","D","R","I","V","E","R">>, FALSE, TRUE) >> }

DpdTopEvents ==
    { NoFlags(<<"2","0","2","5","-","0","9","-","0","9","T","1","0",":","0","0",":","0","0">>, None, <<"D","e","l","i","v","e","r","e","d">>, None, None),
      NoFlags(<<"2","0","2","5","-","0","9","-","0","8","T","1","0",":","0","0",":","0","0">>, None, <<"S","o","r","t","e","d"," ","a","t"," ","d","e","p","o","t">>, None, None),
      NoFlags(<<"2","0","2","5","-","0","9","-","0","8","T","1","2",":","0","0",":","0","0","+","0","2","0","0">>, None, <<"O","u","t"," ","f","o","r"," ","d","e","l","i","v","e","r","y">>, None, None),
      NoFlags(None, None, None, None, None) }

EcoscootingStatuses ==
    { RawEvent(<<"2","0","2","5","-","0","9","-","0","8"," ","1","4",":","0","5",":","0","3"," ","U","T","C","+","1">>, None, <<"D","e","l","i","v","e","r","e","d">>, <<"P","a","r","c","e","l"," ","d","e","l","i","v","e","r","e","d">>,
               <<"D","E","L","I","V","E","R","E","D">>, FALSE, FALSE),
      RawEvent(<<"2","0","2","5","-","0","9","-","0","6"," ","0","9",":","0","0",":","0","0"," ","U","T","C","+","1">>, None, <<"I","n"," ","t","r","a","n","s","i","t">>, None, <<"I","N","_","T","R","A","N","S","I","T">>,
               FALSE, FALSE),
      RawEvent(<<"2","0","2","5","-","1","3","-","0","1"," ","1","4",":","0","5",":","0","3"," ","U","T","C","+","1">>, None, <<"D","e","l","i","v","e","r","i","n","g">>, None, <<"D","E","L","I","V","E","R","I","N","G">>,
               FALSE, FALSE),
      RawEvent(None, None, None, None, None, FALSE, FALSE) }

\* the events key of a shipment: absent, null, or a list
EventFields(S) ==
    { <<"missing", <<>>>>, <<"null", <<>>>> } \cup { <<"list", l>> : l \in SeqsUpTo(S, MaxEvents) }

\* the bodies without a shipment: the container key absent, null, or empty
EmptyBodies == { Payload(c, <<>>, <<>>, TRUE, TRUE) : c \in {"missing", "null", "empty"} }

OneItemBodies(ids, statuses, S) ==
    { Payload("present", <<Item(id, st, ev[1], ev[2], <<>>)>>, <<>>, TRUE, TRUE) :
        id \in ids, st \in statuses, ev \in EventFields(S) }

\* a second parcel of a GLS body: an error entry without unitno, or a parcel
GlsSecondParcels ==
    { Item(None, None, "missing", <<>>, <<>>),
      Item(<<"3","6","3","0","1","9","1","7","5","9","7">>, <<"D","e","l","i","v","e","r","e","d">>, "list",
           <<NoFlags(<<"2","0","2","4","-","1","0","-","1","2","T","0","8",":","0","0",":","0","0">>, None, <<"D","e","l","i","v","e","r","e","d">>, None, None)>>, <<>>) }

GlsBodies ==
    LET one == OneItemBodies({None, <<"3","6","3","0","1","9","1","7","5","9","6">>}, {None, <<"P","R","E","A","D","V","I","C","E">>}, GlsRawEvents) IN
    one \cup { [b EXCEPT !.items = @ \o <<p>>] : b \in one, p \in GlsSecondParcels }

\* the status of a GLS parcel: the values of the GLS API, one in lower case,
\* one the API does not list, and none
GlsStatuses ==
    { <<"P","L","A","N","N","E","D","P","I","C","K","U","P">>, <<"I","N","P","I","C","K","U","P">>, <<"N","O","T","P","I","C","K","E","D","U","P">>, <<"P","R","E","A","D","V","I","C","E">>, <<"I","N","T","R","A","N","S","I","T">>,
      <<"I","N","D","E","L","I","V","E","R","Y">>, <<"D","E","L","I","V","E","R","E","D","P","S">>, <<"D","E","L","I","V","E","R","E","D">>, <<"I","N","W","A","R","E","H","O","U","S","E">>, <<"N","O","T","D","E","L","I","V","E","R","E","D">>,
      <<"C","A","N","C","E","L","E","D">>, <<"F","I","N","A","L">>, <<"d","e","l","i","v","e","r","e","d">>, <<"R","E","T","U","R","N","E","D">>, None }

\* two parcels under one reference, each with its own status and no events;
\* the second may be an error entry without unitno
GlsStatusBodies ==
    { Payload("present",
              <<Item(<<"3","6","3","0","1","9","1","7","5","9","6">>, st1, "missing", <<>>, <<>>),
                Item(id2, st2, "missing", <<>>, <<>>)>>, <<>>, TRUE, TRUE) :
        st1 \in GlsStatuses, st2 \in GlsStatuses, id2 \in {None, <<"3","6","3","0","1","9","1","7","5","9","7">>} }

\* a DPD answer: an HTML page, or JSON with or without parcellifecycleResponse
\* and with or without a list of events at the top
DpdBodies ==
    { Payload("missing", <<>>, <<>>, FALSE, TRUE) }
    \cup { Payload(c, <<>>, top, TRUE, TRUE) :
             c \in {"missing", "null", "empty"}, top \in SeqsUpTo(DpdTopEvents, MaxEvents) }
    \cup { Payload("present", <<Item(id, None, ev[1], ev[2], si)>>, top, TRUE, TRUE) :
             id \in {None, <<"0","1","2","3","4","5","6","7","8","9","0","1","2","3">>}, ev \in EventFields(DpdScanEvents),
             si \in DpdStatusInfos, top \in {<<>>} \cup { <<e>> : e \in DpdTopEvents } }

\* a Cainiao answer: success or not, statuses absent, null, or a list
EcoscootingBodies ==
    { Payload(c, <<>>, <<>>, ok, ok) : c \in {"missing", "null"}, ok \in BOOLEAN }
    \cup { Payload("present", <<>>, l, ok, ok) :
             l \in SeqsUpTo(EcoscootingStatuses, MaxEvents), ok \in BOOLEAN }

AllCarriers == Carriers \cup {s_ecoscooting}

BodiesOf(carrier) ==
    CASE carrier = s_ctt -> EmptyBodies \cup OneItemBodies({None, <<"0","0","8","2","8","0","0","0","8","2","9","0","9","7","2","0","1","1","8","8","8","4">>},
                                                           {None}, CttRawEvents)
      [] carrier = s_correos ->
             EmptyBodies \cup OneItemBodies({None, <<"P","K","4","3","B","G","0","4","4","0","9","2","8","4","4","0","1","4","6","0","0","7","C">>}, {None},
                                            CorreosRawEvents)
      [] carrier = s_dhl ->
             EmptyBodies \cup OneItemBodies({None, <<"0","0","3","4","0","4","3","4","2","9","2","1","3","5","1","0","0","1","8","6">>},
                                            {None, <<"t","r","a","n","s","i","t">>, <<"d","e","l","i","v","e","r","e","d">>}, DhlRawEvents)
      [] carrier = s_gls -> EmptyBodies \cup GlsBodies \cup GlsStatusBodies
      [] carrier = s_dpd -> DpdBodies
      [] carrier = s_ecoscooting -> EcoscootingBodies

NmIdle ==
    /\ nm_pc = "idle"
    /\ nm_carrier = s_ctt
    /\ nm_raw = Payload("missing", <<>>, <<>>, TRUE, TRUE)
    /\ nm_clock = <<0, 0>>
    /\ nm_result = NmRet(NoResponse)
    /\ nm_clock2 = <<0, 0>>
    /\ nm_again = NmRet(NoResponse)

NmInit ==
    /\ nm_pc = "call"
    /\ nm_carrier \in AllCarriers
    /\ nm_raw \in BodiesOf(nm_carrier)
    /\ nm_clock \in ClockValues
    /\ nm_result = NmRet(NoResponse)
    /\ nm_clock2 = <<0, 0>>
    /\ nm_again = NmRet(NoResponse)

NmReturn(r) ==
    /\ nm_result' = r
    /\ nm_pc' = "done"
    /\ UNCHANGED <<nm_carrier, nm_raw, nm_clock, nm_clock2, nm_again>>

CallNormalizeCorreos ==
    nm_pc = "call" /\ nm_carrier = s_correos
        /\ NmReturn(normalize_correos_response(nm_raw, AskedNumber, nm_clock))
CallNormalizeCtt ==
    nm_pc = "call" /\ nm_carrier = s_ctt
        /\ NmReturn(normalize_ctt_response(nm_raw, AskedNumber, nm_clock))
CallNormalizeDhl ==
    nm_pc = "call" /\ nm_carrier = s_dhl
        /\ NmReturn(normalize_dhl_response(nm_raw, AskedNumber, nm_clock))
CallNormalizeGls ==
    nm_pc = "call" /\ nm_carrier = s_gls
        /\ NmReturn(normalize_gls_parcels_response(nm_raw, nm_clock))
CallTrackDpd ==
    nm_pc = "call" /\ nm_carrier = s_dpd /\ NmReturn(dpd_track(nm_raw, AskedNumber, nm_clock))
CallTrackEcoscooting ==
    nm_pc = "call" /\ nm_carrier = s_ecoscooting
        /\ NmReturn(ecoscooting_track(nm_raw, AskedNumber, nm_clock))

\* the clock when the caller normalizes the body it already has once more:
\* some minutes later, or the next day
LaterClocks(clock) == { <<clock[1], clock[2] + 600>>, <<clock[1] + 1, clock[2]>> }

\* the adapter's function for a body
NormalizeBody(carrier, raw, tracking_number, clock) ==
    CASE carrier = s_correos -> normalize_correos_response(raw, tracking_number, clock)
      [] carrier = s_ctt -> normalize_ctt_response(raw, tracking_number, clock)
      [] carrier = s_dhl -> normalize_dhl_response(raw, tracking_number, clock)
      [] carrier = s_gls -> normalize_gls_parcels_response(raw, clock)
      [] carrier = s_dpd -> dpd_track(raw, tracking_number, clock)
      [] carrier = s_ecoscooting -> ecoscooting_track(raw, tracking_number, clock)

\* the same body normalized a second time
NormalizeAgain ==
    /\ nm_pc = "done"
    /\ \E later \in LaterClocks(nm_clock) :
          /\ nm_clock2' = later
          /\ nm_again' = NormalizeBody(nm_carrier, nm_raw, AskedNumber, later)
    /\ nm_pc' = "again"
    /\ UNCHANGED <<nm_carrier, nm_raw, nm_clock, nm_result>>

-----------------------------------------------------------------------------
(* One status text handed to one text classifier                           *)

TextClassifiers == { "map_status_from_text", "_infer_correos_status", "_infer_ctt_status" }

\* status texts as the carriers write them, in Spanish and in English
StatusTexts ==
    { <<"E","n","t","r","e","g","a","d","o">>, <<"E","N","T","R","E","G","A","D","O">>, <<"E","n"," ","r","e","p","a","r","t","o">>, <<"E","n"," ","t","r","a'","n","s","i","t","o">>, <<"e","n"," ","t","r","a","n","s","i","t","o">>,
      <<"A","d","m","i","t","i","d","o">>, <<"E","n","v","i'","o"," ","a","d","m","i","t","i","d","o">>, <<"D","i","s","p","o","n","i","b","l","e"," ","p","a","r","a"," ","r","e","c","o","g","e","r">>,
      <<"P","e","n","d","i","e","n","t","e"," ","d","e"," ","r","e","c","e","p","c","i","o'","n">>, <<"E","n","t","r","e","g","a"," ","h","o","y">>,
      <<"D","e","l","i","v","e","r","e","d">>, <<"O","u","t"," ","f","o","r"," ","d","e","l","i","v","e","r","y">>, <<"I","n"," ","t","r","a","n","s","i","t">>, <<"I","n","f","o","r","m","a","t","i","o","n"," ","r","e","c","e","i","v","e","d">>,
      <<"A","v","a","i","l","a","b","l","e"," ","f","o","r"," ","p","i","c","k","u","p">>, <<"R","e","a","d","y"," ","f","o","r"," ","p","i","c","k","u","p">>, <<"A","t"," ","p","i","c","k","u","p"," ","p","o","i","n","t">>,
      <<"A","t"," ","t","h","e"," ","c","o","l","l","e","c","t","i","o","n"," ","p","o","i","n","t">>, <<"P","i","c","k","u","p"," ","s","c","h","e","d","u","l","e","d">>, <<"S","h","i","p","m","e","n","t"," ","a","c","c","e","p","t","e","d">>,
      <<"D","e","l","i","v","e","r","y"," ","f","a","i","l","e","d">>, <<"A","r","r","i","v","e","d"," ","a","t"," ","d","e","p","o","t">>, <<"P","r","e","-","r","e","g","i","s","t","e","r","e","d">>,
      <<"S","i","n"," ","n","o","v","e","d","a","d">>, <<"L","a","b","e","l"," ","p","r","i","n","t","e","d">>, <<>> }

\* an event that carries the text as its status, and nothing else
TextEvent(text) ==
    TrackingEvent(DT(FALSE, 20341, 36000, 0), text, None, None, None, None)

\* the classifier applied to the text of the latest event
ClassifyText(fn, text) ==
    CASE fn = "map_status_from_text" -> map_status_from_text(text)
      [] fn = "_infer_correos_status" -> infer_correos_status(<<TextEvent(text)>>)
      [] fn = "_infer_ctt_status" -> infer_ctt_status(<<TextEvent(text)>>)

\* the text in lower case, in upper case, and without its accents
CaseAndAccentVariants(text) ==
    { Lower(text), Upper(text), Unaccent(text), Unaccent(Lower(text)) }

TxIdle ==
    /\ tx_pc = "idle"
    /\ tx_fn = "map_status_from_text"
    /\ tx_text = <<>>
    /\ tx_result = "none"
    /\ tx_text2 = <<>>
    /\ tx_result2 = "none"

TxInit ==
    /\ tx_pc = "call"
    /\ tx_fn \in TextClassifiers
    /\ tx_text \in StatusTexts
    /\ tx_result = "none"
    /\ tx_text2 = <<>>
    /\ tx_result2 = "none"

TxReturn(status) ==
    /\ tx_result' = status
    /\ tx_pc' = "done"
    /\ UNCHANGED <<tx_fn, tx_text, tx_text2, tx_result2>>

CallMapStatusFromText ==
    tx_pc = "call" /\ tx_fn = "map_status_from_text"
        /\ TxReturn(map_status_from_text(tx_text))
CallInferCorreosStatus ==
    tx_pc = "call" /\ tx_fn = "_infer_correos_status"
        /\ TxReturn(infer_correos_status(<<TextEvent(tx_text)>>))
CallInferCttStatus ==
    tx_pc = "call" /\ tx_fn = "_infer_ctt_status"
        /\ TxReturn(infer_ctt_status(<<TextEvent(tx_text)>>))

\* the same classifier on the same text in another case or without accents
ClassifyVariant ==
    /\ tx_pc = "done"
    /\ \E other \in CaseAndAccentVariants(tx_text) :
          /\ tx_text2' = other
          /\ tx_result2' = ClassifyText(tx_fn, other)
    /\ tx_pc' = "variant"
    /\ UNCHANGED <<tx_fn, tx_text, tx_result>>

-----------------------------------------------------------------------------
(* Tracking invocations: track and track_async of the adapters, with the    *)
(* requests they issue and the clients they open                           *)

\* the invocations in flight
Procs == {1, 2}

\* track, track_async without a client, track_async with the caller's client
Variants == {"sync", "async", "async_client"}

\* what the carrier can answer to a tracking request
TkOutcomes ==
    { GotStatus(200, FALSE), GotStatus(503, TRUE), GotStatus(404, TRUE), GotError("ConnectError") }

\* what the token endpoint can answer: a body with or without access_token, an
\* error status, a transport error
TokenOutcomes == {"access_token", "no_access_token", "HTTPStatusError", "ConnectError"}

\* a request and what came back, "pending" while it is in flight
Request(req, got) == [req |-> req, got |-> got]

TkResult(exc, served, resp) == [exc |-> exc, served |-> served, resp |-> resp]
TkNoResult == TkResult("pending", 0, NoResponse)

Invocation(carrier, variant) ==
    [carrier |-> carrier, variant |-> variant, pc |-> "start", attempt |-> 0,
     last_exc |-> "None", log |-> <<>>, open |-> 0, result |-> TkNoResult]

\* the adapters that send their tracking request through get_with_retries or
\* async_get_with_retries; gls.track and gls.track_async call httpx themselves
UsesRetries(carrier) == carrier \in {s_correos, s_ctt, s_dhl, s_dpd, s_ecoscooting}

\* the call opens a client of its own for the request
OpensClient(variant) == variant # "async_client"

\* `with httpx.Client(...) as client:` in get_with_retries spans the sleep;
\* `async with httpx.AsyncClient(...) as ac:` spans the request alone
ClosesBeforeSleep(inv) == inv.variant = "async" \/ ~UsesRetries(inv.carrier)

\* a with block that leaves its client open
ScopeExit_LeavesOpen(inv) == inv.open

\* the client the with block of the call manages: the one it opened; with the
\* caller's client there is no with block
ManagedClient(variant) == IF OpensClient(variant) THEN "own" ELSE "none"

\* the exit of the with block, by return or by exception: the clients of its
\* own the call holds open, and the caller's client, after it
ScopeExit(inv) == IF ManagedClient(inv.variant) = "own" THEN inv.open - 1 ELSE inv.open
CallerClientAfter(inv, is_open) == is_open /\ ManagedClient(inv.variant) # "caller"

\* the answer written over the pending entry of the log
Answered(log, o) == [log EXCEPT ![Len(log)] = Request(log[Len(log)].req, o)]

\* the error event's details in ecoscooting.track and ecoscooting.atrack
ecoscooting_call_details(variant) ==
    IF variant = "sync" THEN call_cainiao_api(NoResponse).msg
    ELSE UnexpectedKeywordText(<<"a","s","y","n","c","_","g","e","t","_","w","i","t","h","_","r","e","t","r","i","e","s">>)

\* the call of the transport in ecoscooting.track / ecoscooting.atrack raises
\* before anything is sent
ecoscooting_call_raises(variant) ==
    IF variant = "sync" THEN call_cainiao_api(NoResponse).exc # "none"
    ELSE ~(CainiaoKeywords \subseteq AsyncGetWithRetriesKeywords)

\* the missing credential of dhl.track / gls.track and their async variants
CredentialMissing(carrier, env) ==
    \/ carrier = s_dhl /\ DhlMissingCredential(env)
    \/ carrier = s_gls /\ GlsMissingCredential(env)

\* the environment of the calls: every credential set, or one of them unset
\* or empty
AllSet == [DHL_API_KEY |-> EnvKey, GLS_CLIENT_ID |-> EnvKey, GLS_CLIENT_SECRET |-> EnvKey]
TkEnvs ==
    { AllSet,
      [AllSet EXCEPT !.DHL_API_KEY = None], [AllSet EXCEPT !.DHL_API_KEY = <<>>],
      [AllSet EXCEPT !.GLS_CLIENT_ID = None], [AllSet EXCEPT !.GLS_CLIENT_SECRET = <<>>] }

\* the first statements of track / track_async, up to the first request
track_start(inv, env) ==
    IF inv.carrier = s_ecoscooting /\ ecoscooting_call_raises(inv.variant)
    THEN [inv EXCEPT !.pc = "returned",
                     !.result = TkResult("none", 0,
                         ecoscooting_error_response(AskedNumber,
                             ecoscooting_call_details(inv.variant), <<0, 0>>))]
    ELSE IF CredentialMissing(inv.carrier, env)
    THEN [inv EXCEPT !.pc = "raised", !.result = TkResult("RuntimeError", 0, NoResponse)]
    ELSE IF inv.carrier = s_gls
    THEN [inv EXCEPT !.pc = "token", !.open = @ + 1,
                     !.log = Append(@, Request("token", "pending"))]
    ELSE [inv EXCEPT !.pc = "loop"]

\* a token step that goes on to the tracking request whatever came back
get_oauth_token_GoesOn(inv, o) ==
    [inv EXCEPT !.open = @ - 1, !.log = Answered(@, o), !.pc = "loop"]

\* gls._get_oauth_token once the token endpoint answered
get_oauth_token(inv, o) ==
    LET closed == [inv EXCEPT !.open = @ - 1, !.log = Answered(@, o)] IN
    IF o = "access_token" THEN [closed EXCEPT !.pc = "loop"]
    ELSE [closed EXCEPT !.pc = "raised",
                        !.result = TkResult(IF o = "no_access_token" THEN "RuntimeError" ELSE o,
                                            0, NoResponse)]

\* the tracking request leaves: `attempt += 1`, the client, client.get
send_request(inv) ==
    [inv EXCEPT !.attempt = @ + 1,
                !.open = IF OpensClient(inv.variant) THEN @ + 1 ELSE @,
                !.log = Append(@, Request("track", "pending")),
                !.pc = "get"]

\* the statements of get_with_retries / async_get_with_retries after client.get
retry_step(inv, o) ==
    IF o.kind = "status"
    THEN IF InForcelist(o.status) /\ AttemptLeft(inv.attempt, DefaultMaxAttempts)
         THEN [inv EXCEPT !.pc = "sleep"]
         ELSE IF o.rejects
         THEN [inv EXCEPT !.pc = "raised",
                          !.result = TkResult("HTTPStatusError", inv.attempt, NoResponse)]
         ELSE [inv EXCEPT !.pc = "returned",
                          !.result = TkResult("none", inv.attempt, NoResponse)]
    ELSE IF AttemptLeft(inv.attempt, DefaultMaxAttempts)
    THEN [inv EXCEPT !.pc = "sleep", !.last_exc = o.cls]
    ELSE [inv EXCEPT !.pc = "raised", !.last_exc = o.cls,
                     !.result = TkResult(o.cls, inv.attempt, NoResponse)]

\* gls.track / gls.track_async after client.get: raise_for_status, resp.json()
gls_step(inv, o) ==
    IF o.kind = "status" /\ ~o.rejects
    THEN [inv EXCEPT !.pc = "returned", !.result = TkResult("none", inv.attempt, NoResponse)]
    ELSE [inv EXCEPT !.pc = "raised",
                     !.result = TkResult(IF o.kind = "status" THEN "HTTPStatusError" ELSE o.cls,
                                         inv.attempt, NoResponse)]

\* the answer to the tracking request arrives
receive_answer(inv, o) ==
    LET step == IF UsesRetries(inv.carrier) THEN retry_step(inv, o) ELSE gls_step(inv, o)
    IN  [step EXCEPT !.log = Answered(@, o),
                     !.open = IF step.pc # "sleep" \/ ClosesBeforeSleep(inv)
                              THEN ScopeExit(inv) ELSE @]

\* time.sleep / asyncio.sleep is over: `continue`
wake_up(inv) ==
    [inv EXCEPT !.pc = "loop", !.open = IF ClosesBeforeSleep(inv) THEN @ ELSE ScopeExit(inv)]

TkIdle ==
    /\ tk_env = [DHL_API_KEY |-> None, GLS_CLIENT_ID |-> None, GLS_CLIENT_SECRET |-> None]
    /\ tk_inv = [p \in Procs |-> [Invocation(s_correos, "sync") EXCEPT !.pc = "idle"]]
    /\ tk_client_open = FALSE

TkInit ==
    /\ tk_env \in TkEnvs
    /\ tk_inv \in [Procs -> { Invocation(c, v) : c \in AllCarriers, v \in Variants }]
    /\ tk_client_open = TRUE

\* track / track_async is called
TkTrack ==
    \E p \in Procs :
        /\ tk_inv[p].pc = "start"
        /\ tk_inv' = [tk_inv EXCEPT ![p] = track_start(@, tk_env)]
        /\ UNCHANGED <<tk_env, tk_client_open>>

\* the token endpoint answers
TkTokenAnswer ==
    \E p \in Procs, o \in TokenOutcomes :
        /\ tk_inv[p].pc = "token"
        /\ tk_inv' = [tk_inv EXCEPT ![p] = get_oauth_token(@, o)]
        /\ UNCHANGED <<tk_env, tk_client_open>>

\* the loop test passes (gls: the one request) and the tracking request leaves
TkSend ==
    \E p \in Procs :
        /\ tk_inv[p].pc = "loop"
        /\ AttemptLeft(tk_inv[p].attempt, DefaultMaxAttempts)
        /\ tk_inv' = [tk_inv EXCEPT ![p] = send_request(@)]
        /\ UNCHANGED <<tk_env, tk_client_open>>

\* an answer handled with one attempt counter for all the calls in flight
TkAnswer_SharedAttempt ==
    \E p \in Procs, o \in TkOutcomes :
        LET most == CHOOSE n \in { tk_inv[q].attempt : q \in Procs } :
                        \A q \in Procs : tk_inv[q].attempt <= n
        IN  /\ tk_inv[p].pc = "get"
            /\ tk_inv' = [tk_inv EXCEPT ![p] = receive_answer([@ EXCEPT !.attempt = most], o)]
            /\ tk_client_open' = CallerClientAfter(tk_inv[p], tk_client_open)
            /\ UNCHANGED tk_env

\* the carrier answers the tracking request
TkAnswer ==
    \E p \in Procs, o \in TkOutcomes :
        /\ tk_inv[p].pc = "get"
        /\ tk_inv' = [tk_inv EXCEPT ![p] = receive_answer(@, o)]
        /\ tk_client_open' = CallerClientAfter(tk_inv[p], tk_client_open)
        /\ UNCHANGED tk_env

\* the backoff sleep ends
TkWake ==
    \E p \in Procs :
        /\ tk_inv[p].pc = "sleep"
        /\ tk_inv' = [tk_inv EXCEPT ![p] = wake_up(@)]
        /\ tk_client_open' = CallerClientAfter(tk_inv[p], tk_client_open)
        /\ UNCHANGED tk_env

-----------------------------------------------------------------------------
(* The language on the carriers' requests: correos.track, dpd.track         *)

\* correos.SUPPORTED_LANGUAGES
SUPPORTED_LANGUAGES == { <<"E","N">>, <<"E","S">>, <<"F","R">> }

\* the query parameters correos.track sends
correos_params(shipment_code, language) == [text |-> shipment_code, language |-> language]

\* CorreosProvider.track: track(shipment_code=..., language=(language or "ES").upper())
CorreosProvider_track(tracking_number, language) ==
    correos_params(tracking_number, Upper(IF Truthy(language) THEN language ELSE <<"E","S">>))

s_pl_PL == <<"p","l","_","P","L">>
s_cs_CZ == <<"c","s","_","C","Z">>

\* dpd._SUPPORTED_LOCALES
SUPPORTED_LOCALES ==
    { s_en_US, s_de_DE, s_fr_FR, s_es_ES, s_it_IT, s_nl_NL, s_pl_PL, s_cs_CZ }

\* dpd._LANG_TO_LOCALE, as a set of <<key, value>> pairs
LANG_TO_LOCALE ==
    { <<s_en, s_en_US>>, <<s_de, s_de_DE>>, <<s_fr, s_fr_FR>>, <<s_es, s_es_ES>>,
      <<s_it, s_it_IT>>, <<s_nl, s_nl_NL>>, <<<<"p","l">>, s_pl_PL>>, <<<<"c","s">>, s_cs_CZ>> }

\* the `len(c) == 5 and c[2] == "_"` branch of dpd._resolve_locale
resolve_locale_region(code, c) ==
    LET lang == Lower(Slice(c, 0, 2))
        loc == lang \o <<"_">> \o Upper(SliceFrom(c, 3))
    IN  IF loc \in SUPPORTED_LOCALES THEN <<loc, None>>
        ELSE IF DictHas(LANG_TO_LOCALE, lang) THEN <<DictIndex(LANG_TO_LOCALE, lang).val, code>>
        ELSE <<s_en_US, code>>

\* the two-letter branch of dpd._resolve_locale
resolve_locale_language(code, lc) ==
    IF DictHas(LANG_TO_LOCALE, lc) THEN <<DictIndex(LANG_TO_LOCALE, lc).val, None>>
    ELSE <<s_en_US, code>>

\* the body of dpd._resolve_locale for a non-empty lang_code
resolve_locale_of(code, c) ==
    IF Len(c) = 5 /\ c[3] = "_" THEN resolve_locale_region(code, c)
    ELSE resolve_locale_language(code, Lower(c))

\* dpd._resolve_locale(lang_code) -> <<locale, normalized_from>>
resolve_locale(lang_code) ==
    IF lang_code = <<>> THEN <<s_en_US, None>>
    ELSE resolve_locale_of(Strip(lang_code), ReplaceC(Strip(lang_code), "-", "_"))

\* the locale dpd.track puts in the URL: _resolve_locale((language or "EN").strip())
dpd_track_locale(language) ==
    resolve_locale(Strip(IF Truthy(language) THEN language ELSE <<"E","N">>))[1]

-----------------------------------------------------------------------------
(* Specifications: one per component; the other components stay idle       *)

\* one call of normalize_language
LangNext == LangResolve /\ UNCHANGED <<cliVars, rtVars, psVars, nmVars, txVars, tkVars>>

LangInit == LgInit /\ CliIdle /\ RtIdle /\ PsIdle /\ NmIdle /\ TxIdle /\ TkIdle

SpecLang == LangInit /\ [][LangNext]_vars

\* one run of cmd_track
CliNext ==
    \/ CliTrack /\ UNCHANGED <<lgVars, rtVars, psVars, nmVars, txVars, tkVars>>
    \/ CliNote /\ UNCHANGED <<lgVars, rtVars, psVars, nmVars, txVars, tkVars>>
    \/ CliPrint /\ UNCHANGED <<lgVars, rtVars, psVars, nmVars, txVars, tkVars>>
    \/ CliReturn /\ UNCHANGED <<lgVars, rtVars, psVars, nmVars, txVars, tkVars>>

TrackInit == CliInit /\ LgIdle /\ RtIdle /\ PsIdle /\ NmIdle /\ TxIdle /\ TkIdle

SpecCli == TrackInit /\ [][CliNext]_vars

\* one call of get_with_retries or async_get_with_retries; the interpreter
\* keeps executing the loop, so every enabled step is eventually taken
RtNext ==
    \/ RtAttempt /\ UNCHANGED <<lgVars, cliVars, psVars, nmVars, txVars, tkVars>>
    \/ RtExhausted /\ UNCHANGED <<lgVars, cliVars, psVars, nmVars, txVars, tkVars>>

RetryInit == RtInit /\ LgIdle /\ CliIdle /\ PsIdle /\ NmIdle /\ TxIdle /\ TkIdle

SpecRetry == RetryInit /\ [][RtNext]_vars /\ WF_vars(RtNext)

\* one call of one of the datetime parsers
ParseNext ==
    \/ CallParseDtIso /\ UNCHANGED <<lgVars, cliVars, rtVars, nmVars, txVars, tkVars>>
    \/ CallParseCorreosDatetime /\ UNCHANGED <<lgVars, cliVars, rtVars, nmVars, txVars, tkVars>>
    \/ CallParseGlsDatetime /\ UNCHANGED <<lgVars, cliVars, rtVars, nmVars, txVars, tkVars>>
    \/ CallParseIsoDate /\ UNCHANGED <<lgVars, cliVars, rtVars, nmVars, txVars, tkVars>>
    \/ CallParseDpdStatusDate /\ UNCHANGED <<lgVars, cliVars, rtVars, nmVars, txVars, tkVars>>
    \/ CallParseEcoscootingDate /\ UNCHANGED <<lgVars, cliVars, rtVars, nmVars, txVars, tkVars>>

ParseInit == PsInit /\ LgIdle /\ CliIdle /\ RtIdle /\ NmIdle /\ TxIdle /\ TkIdle

SpecParse == ParseInit /\ [][ParseNext]_vars

\* one body handed to one adapter
NormNext ==
    \/ CallNormalizeCorreos /\ UNCHANGED <<lgVars, cliVars, rtVars, psVars, txVars, tkVars>>
    \/ CallNormalizeCtt /\ UNCHANGED <<lgVars, cliVars, rtVars, psVars, txVars, tkVars>>
    \/ CallNormalizeDhl /\ UNCHANGED <<lgVars, cliVars, rtVars, psVars, txVars, tkVars>>
    \/ CallNormalizeGls /\ UNCHANGED <<lgVars, cliVars, rtVars, psVars, txVars, tkVars>>
    \/ CallTrackDpd /\ UNCHANGED <<lgVars, cliVars, rtVars, psVars, txVars, tkVars>>
    \/ CallTrackEcoscooting /\ UNCHANGED <<lgVars, cliVars, rtVars, psVars, txVars, tkVars>>
    \/ NormalizeAgain /\ UNCHANGED <<lgVars, cliVars, rtVars, psVars, txVars, tkVars>>

NormInit == NmInit /\ LgIdle /\ CliIdle /\ RtIdle /\ PsIdle /\ TxIdle /\ TkIdle

SpecNorm == NormInit /\ [][NormNext]_vars

\* one status text handed to one text classifier
TextNext ==
    \/ CallMapStatusFromText /\ UNCHANGED <<lgVars, cliVars, rtVars, psVars, nmVars, tkVars>>
    \/ CallInferCorreosStatus /\ UNCHANGED <<lgVars, cliVars, rtVars, psVars, nmVars, tkVars>>
    \/ CallInferCttStatus /\ UNCHANGED <<lgVars, cliVars, rtVars, psVars, nmVars, tkVars>>
    \/ ClassifyVariant /\ UNCHANGED <<lgVars, cliVars, rtVars, psVars, nmVars, tkVars>>

TextInit == TxInit /\ LgIdle /\ CliIdle /\ RtIdle /\ PsIdle /\ NmIdle /\ TkIdle

SpecText == TextInit /\ [][TextNext]_vars

\* tracking invocations in flight, their steps interleaved
TrackingNext ==
    \/ TkTrack /\ UNCHANGED <<lgVars, cliVars, rtVars, psVars, nmVars, txVars>>
    \/ TkTokenAnswer /\ UNCHANGED <<lgVars, cliVars, rtVars, psVars, nmVars, txVars>>
    \/ TkSend /\ UNCHANGED <<lgVars, cliVars, rtVars, psVars, nmVars, txVars>>
    \/ TkAnswer /\ UNCHANGED <<lgVars, cliVars, rtVars, psVars, nmVars, txVars>>
    \/ TkWake /\ UNCHANGED <<lgVars, cliVars, rtVars, psVars, nmVars, txVars>>

TrackingInit == TkInit /\ LgIdle /\ CliIdle /\ RtIdle /\ PsIdle /\ NmIdle /\ TxIdle

SpecTracking == TrackingInit /\ [][TrackingNext]_vars

-----------------------------------------------------------------------------
(* Claims about normalize_language                                         *)

IsLower2(s) == Len(s) = 2 /\ \A i \in 1..2 : IsLowerC(s[i])
IsUpper2(s) == Len(s) = 2 /\ \A i \in 1..2 : IsUpperC(s[i])

\* C10: normalize_language never raises; the result for dhl is a lowercase
\* 2-letter code and for gls an uppercase one; ("xx-ZZ", dpd) gives en_US,
\* ("de", dhl) gives "de" and ("es", gls) gives "ES".
C10_LanguageTotalAndCarrierSpecific ==
    lg_pc = "done" =>
        /\ ~Raised(lg_result)
        /\ (Lower(IF Truthy(lg_provider) THEN lg_provider ELSE <<>>) = s_dhl
                => IsLower2(lg_result.val[1]))
        /\ (Lower(IF Truthy(lg_provider) THEN lg_provider ELSE <<>>) = s_gls
                => IsUpper2(lg_result.val[1]))
        /\ (lg_language = s_xx_ZZ /\ lg_provider = s_dpd => lg_result.val[1] = s_en_US)
        /\ (lg_language = s_de /\ lg_provider = s_dhl => lg_result.val[1] = s_de)
        /\ (lg_language = s_es /\ lg_provider = s_gls => lg_result.val[1] = <<"E","S">>)

\* the parts of C10 that do not depend on the environment's default language
C10_TotalPart ==
    lg_pc = "done" =>
        /\ ~Raised(lg_result)
        /\ (Lower(IF Truthy(lg_provider) THEN lg_provider ELSE <<>>) = s_dhl
                => IsLower2(lg_result.val[1]))
        /\ (Lower(IF Truthy(lg_provider) THEN lg_provider ELSE <<>>) = s_gls
                => IsUpper2(lg_result.val[1]))
        /\ (lg_language = s_de /\ lg_provider = s_dhl => lg_result.val[1] = s_de)
        /\ (lg_language = s_es /\ lg_provider = s_gls => lg_result.val[1] = <<"E","S">>)
        /\ (lg_language = s_xx_ZZ /\ lg_provider = s_dpd /\ DetectDefaultLang(lg_env) = s_en
                => lg_result.val[1] = s_en_US)

-----------------------------------------------------------------------------
(* Claims about cmd_track                                                  *)

CliAfterTrack == cli_pc \in {"tracked", "noted", "printed", "returned"}

IsFallbackShape(resp) ==
    /\ Len(resp.shipments) = 1
    /\ resp.shipments[1].status = "unknown"
    /\ Len(resp.shipments[1].events) = 1
    /\ resp.shipments[1].events[1].status # <<>>

\* C1: with strict mode disabled, an Exception raised by the tracker call
\* never leaves cmd_track: the response is one unknown-status Shipment with
\* one event whose status text is non-empty, and the exit code is 1; when
\* the tracker call returns, the exit code is 0.
C1_NonStrictFallback ==
    ~cli_args.strict =>
        /\ (cli_outcome.kind = "raise" /\ IsException(cli_outcome.exc.cls))
              => /\ CliAfterTrack
                 /\ cli_exc = NoExc
                 /\ IsFallbackShape(cli_response)
                 /\ (cli_pc = "returned" => cli_exit = 1)
        /\ (cli_outcome.kind = "return" /\ cli_pc = "returned") => cli_exit = 0

C1_Witness ==
    /\ ~cli_args.strict
    /\ cli_pc = "returned"
    /\ cli_outcome.kind = "raise"
    /\ cli_outcome.exc.cls = "HTTPStatusError"
    /\ cli_outcome.exc.status = "404"
    /\ cli_exit = 1

\* C2: with strict mode enabled, an exception raised by the tracker call
\* leaves cmd_track unchanged: no fallback response is built, nothing is
\* printed and no exit code is returned.
C2_StrictPropagates ==
    (cli_args.strict /\ cli_outcome.kind = "raise") =>
        /\ cli_pc = "raised"
        /\ cli_exc = cli_outcome.exc
        /\ cli_response = NoResponse
        /\ ~cli_error
        /\ cli_stdout = <<>>
        /\ cli_exit = -1

C2_Witness ==
    /\ cli_args.strict
    /\ cli_pc = "raised"
    /\ cli_exc.cls = "HTTPStatusError"
    /\ cli_exc.status = "404"

CliCredentialMissing ==
    \/ cli_args.carrier = s_dhl /\ cli_env.DHL_API_KEY \in {None, <<>>}
    \/ cli_args.carrier = s_gls /\ (cli_env.GLS_CLIENT_ID \in {None, <<>>}
                                     \/ cli_env.GLS_CLIENT_SECRET \in {None, <<>>})

\* C3 as stated: a configuration error is never normalized into a
\* TrackingResponse; strict or not, it reaches the caller as a raised error.
C3_ConfigErrorNeverNormalized ==
    (cli_pc # "start" /\ CliCredentialMissing) =>
        /\ cli_pc = "raised"
        /\ cli_exc.config
        /\ cli_response = NoResponse

\* C3 amended: a missing credential makes the adapter raise before anything
\* else (the adapter itself never returns a response); in strict mode the
\* error reaches the caller of cmd_track with nothing printed; in non-strict
\* mode cmd_track turns it, like any other Exception, into the fallback
\* unknown-status shipment and returns 1.
C3_ConfigErrorRaisedByAdapter ==
    (cli_pc \notin {"start", "idle"} /\ CliCredentialMissing) =>
        /\ cli_outcome = Threw(ConfigExc)
        /\ cli_args.strict =>
              /\ cli_pc = "raised"
              /\ cli_exc = ConfigExc
              /\ cli_response = NoResponse
              /\ cli_stdout = <<>>
        /\ ~cli_args.strict =>
              /\ CliAfterTrack
              /\ cli_exc = NoExc
              /\ IsFallbackShape(cli_response)
              /\ (cli_pc = "returned" => cli_exit = 1)

C3_Witness ==
    /\ cli_args.carrier = s_dhl
    /\ cli_env.DHL_API_KEY = <<>>
    /\ ~cli_args.strict
    /\ cli_outcome.exc.config
    /\ cli_pc = "returned"
    /\ cli_exit = 1

-----------------------------------------------------------------------------
(* Claims about the transport retry loop                                   *)

RtTransient(o) == (o.kind = "status" /\ o.status \in {500, 502, 503, 504}) \/ o.kind = "error"

RtSafety ==
    \* at most max_attempts requests
    /\ Len(rt_requests) <= rt_max_attempts
    \* a request is repeated only after a forcelist status or a transport error,
    \* and each repetition is preceded by one backoff sleep
    /\ \A i \in 1..(Len(rt_requests) - 1) : RtTransient(rt_requests[i])
    /\ Len(rt_sleeps) = Len(rt_requests) - (IF rt_pc = "loop" \/ rt_requests = <<>> THEN 0 ELSE 1)
    \* when every attempt failed transiently, the last attempt's error is raised
    /\ (rt_pc \in {"returned", "raised"} /\ rt_requests # <<>>
           /\ \A i \in 1..Len(rt_requests) : RtTransient(rt_requests[i]))
          => LET last == rt_requests[Len(rt_requests)] IN
             /\ rt_pc = "raised"
             /\ Len(rt_requests) = rt_max_attempts
             /\ rt_result.attempt = Len(rt_requests)
             /\ (last.kind = "status" => rt_result.exc = "HTTPStatusError"
                                         /\ rt_result.status = last.status)
             /\ (last.kind = "error" => rt_result.exc = last.cls)

\* C6: get_with_retries and async_get_with_retries terminate after at most
\* max_attempts requests; a request is repeated only after a status in
\* status_forcelist or a transport error; when every attempt fails that way
\* the error of the last attempt is raised.
C6_BoundedRetries == []RtSafety /\ <>(rt_pc \in {"returned", "raised"})

C6_Witness ==
    /\ rt_pc = "raised"
    /\ rt_max_attempts = 3
    /\ Len(rt_requests) = 3
    /\ rt_requests[1].status = 503
    /\ rt_requests[2].kind = "error"
    /\ rt_requests[3].status = 500
    /\ rt_result.exc = "HTTPStatusError"

\* C7: when the first response has a status outside status_forcelist that
\* raise_for_status rejects, exactly one request is issued, no backoff sleep
\* is performed and the HTTP status error of that response is raised.
C7_ClientErrorsNotRetried ==
    (rt_requests # <<>> /\ rt_requests[1].kind = "status" /\ rt_requests[1].rejects
        /\ rt_requests[1].status \notin {500, 502, 503, 504})
    => /\ rt_pc = "raised"
       /\ Len(rt_requests) = 1
       /\ rt_sleeps = <<>>
       /\ rt_result = RtResult("HTTPStatusError", rt_requests[1].status, 1)

C7_Witness ==
    /\ rt_async
    /\ rt_max_attempts = 3
    /\ rt_pc = "raised"
    /\ rt_requests = <<GotStatus(404, TRUE)>>
    /\ rt_sleeps = <<>>

-----------------------------------------------------------------------------
(* Claims about the datetime parsers                                       *)

\* C8: datetime parsing is total: for any input (well-formed, malformed,
\* empty or None) parse_dt_iso, _parse_correos_datetime, _parse_gls_datetime,
\* _parse_iso_date, _parse_dpd_status_date and _parse_ecoscooting_date return
\* a value and never raise.
C8_ParsersNeverRaise == ps_pc = "done" => ~PRaised(ps_result)

\* the five parsers that catch what strptime and fromisoformat raise
ParsersThatCatch == ps_pc = "done" /\ ps_fn # "_parse_ecoscooting_date" => ~PRaised(ps_result)

-----------------------------------------------------------------------------
(* Claims about the normalizers                                            *)

\* C4: for every adapter and any order of the raw events, the events of every
\* returned Shipment are sorted non-decreasing by timestamp: no event is
\* followed by one with an earlier timestamp, nor by one it cannot be compared with.
C4_EventsSorted ==
    (nm_pc = "done" /\ ~NmRaised(nm_result))
    => \A i \in DOMAIN nm_result.resp.shipments :
         \A k \in 1..(Len(nm_result.resp.shipments[i].events) - 1) :
            /\ nm_result.resp.shipments[i].events[k].timestamp.aware
                 = nm_result.resp.shipments[i].events[k + 1].timestamp.aware
            /\ ~DtLess(nm_result.resp.shipments[i].events[k + 1].timestamp,
                       nm_result.resp.shipments[i].events[k].timestamp)

\* the adapters that sort, or return at most one event, keep the order
SortingAdaptersSorted == nm_carrier # s_dpd => C4_EventsSorted

\* C5: for every adapter, a body without shipments (the container key absent,
\* null or empty, the empty JSON object included) gives a TrackingResponse with
\* shipments = [] and has_shipments False, and the call does not raise.
C5_NoShipmentsGivesEmptyList ==
    (nm_pc = "done" /\ nm_raw.container \in {"missing", "null", "empty"}
        /\ nm_raw.top_events = <<>>)
    => /\ ~NmRaised(nm_result)
       /\ nm_result.resp.shipments = <<>>
       /\ ~has_shipments(nm_result.resp)

\* the four normalize functions return an empty list for such a body
NormalizeFunctionsGiveEmptyList ==
    nm_carrier \in {s_correos, s_ctt, s_dhl, s_gls} => C5_NoShipmentsGivesEmptyList

\* C9: for the Correos, CTT, DHL and GLS normalize functions no event is dropped
\* because of its timestamp: every raw event of a shipment gives exactly one
\* TrackingEvent, and the call does not raise whatever mix of zoned, unzoned,
\* unreadable and absent timestamps the shipment holds.
C9_EveryEventKept ==
    (nm_pc = "done" /\ nm_carrier \in {s_correos, s_ctt, s_dhl, s_gls}
        /\ nm_raw.container = "present"
        /\ \A i \in DOMAIN nm_raw.items :
              nm_raw.items[i].events_kind = "list" /\ Truthy(nm_raw.items[i].id))
    => /\ ~NmRaised(nm_result)
       /\ Len(nm_result.resp.shipments) = Len(nm_raw.items)
       /\ \A i \in DOMAIN nm_raw.items :
             Len(nm_result.resp.shipments[i].events) = Len(nm_raw.items[i].events)

\* when the call returns, every event is there
ReturnedEventsKept == NmRaised(nm_result) \/ C9_EveryEventKept

\* Correos timestamps never carry a zone, so its sort never raises
CorreosEveryEventKept == nm_carrier = s_correos => C9_EveryEventKept

-----------------------------------------------------------------------------
(* Claims about the language a request carries                              *)

\* C11: for any language token, the language that reaches the Correos request,
\* through normalize_language(token, 'correos') in the CLI or through
\* CorreosProvider.track, is one of EN, ES, FR.
C11_CorreosLanguageAllowed ==
    (lg_pc = "done" /\ lg_provider = s_correos)
    => /\ ~Raised(lg_result)
       /\ correos_params(AskedNumber, lg_result.val[1]).language \in SUPPORTED_LANGUAGES
       /\ CorreosProvider_track(AskedNumber, lg_language).language \in SUPPORTED_LANGUAGES

\* what does hold: the CLI hands Correos an upper-case code of `allowed`
CorreosLanguageIsUpperOfAllowed ==
    (lg_pc = "done" /\ lg_provider = s_correos)
    => ~Raised(lg_result) /\ lg_result.val[1] \in { Upper(l) : l \in allowed }

\* C12: for DPD both resolvers, normalize_language(token, 'dpd') and
\* dpd._resolve_locale(token), return a locale of the supported-locale allowlist:
\* the input locale itself when it is in the allowlist, en_US when its language
\* is unrecognized; and the two give the same locale for the same token.
C12_DpdLocaleResolution ==
    (lg_pc = "done" /\ lg_provider = s_dpd)
    => /\ ~Raised(lg_result)
       /\ lg_result.val[1] \in SUPPORTED_LOCALES
       /\ dpd_track_locale(lg_language) \in SUPPORTED_LOCALES
       /\ (Truthy(lg_language) => lg_result.val[1] = dpd_track_locale(lg_language))
       /\ (Truthy(lg_language) /\ ReplaceC(Strip(lg_language), "-", "_") \in SUPPORTED_LOCALES
             => lg_result.val[1] = ReplaceC(Strip(lg_language), "-", "_"))
       /\ (Truthy(lg_language) /\ ~DictHas(LANG_TO_LOCALE, Lower(Slice(Strip(lg_language), 0, 2)))
             => lg_result.val[1] = s_en_US)

\* what does hold: each resolver returns a locale of the allowlist, and
\* dpd.track keeps the locale normalize_language hands it
DpdLocaleInAllowlist ==
    (lg_pc = "done" /\ lg_provider = s_dpd)
    => /\ ~Raised(lg_result)
       /\ lg_result.val[1] \in SUPPORTED_LOCALES
       /\ dpd_track_locale(lg_language) \in SUPPORTED_LOCALES
       /\ dpd_track_locale(lg_result.val[1]) = lg_result.val[1]

-----------------------------------------------------------------------------
(* Claims about normalizing a body twice                                   *)

\* C13: normalizing the same body twice, at two different times, gives equal
\* TrackingResponse values (query_timestamp apart), every event timestamp and
\* the derived status included.
C13_NormalizeTwiceEqual ==
    (nm_pc = "again" /\ nm_carrier # s_ecoscooting) => nm_again = nm_result

\* the adapter's parser reads the timestamp of the raw event, so that no
\* datetime.now() stands in for it (for DPD: of a scan)
TimestampRead(carrier, ev) ==
    CASE carrier = s_correos ->
            /\ Truthy(OrEmpty(ev.f_ts))
            /\ ~PRaised(IF Truthy(OrEmpty(ev.f_ts2))
                        THEN Strptime(ev.f_ts \o <<" ">> \o ev.f_ts2, Fmt_dmY_slash_HM)
                        ELSE Strptime(ev.f_ts, Fmt_dmY_slash))
      [] carrier = s_ctt -> ~parse_dt_iso(Or(ev.f_ts, ev.f_ts2)).none
      [] carrier = s_dhl -> ~parse_dt_iso(OrEmpty(ev.f_ts)).none
      [] carrier = s_gls -> ~parse_gls_datetime(ev.f_ts).none
      [] carrier = s_dpd -> ~dpd_scan_timestamp(parse_iso_date(ev.f_ts), ev).none

\* every timestamp the adapter converts is read: the events of each shipment,
\* DPD's milestones, and the events DPD's generic normalizer takes up when the
\* structured one raises
EveryTimestampRead ==
    /\ \A i \in DOMAIN nm_raw.items :
          /\ \A k \in DOMAIN nm_raw.items[i].events :
                TimestampRead(nm_carrier, nm_raw.items[i].events[k])
          /\ \A k \in DOMAIN nm_raw.items[i].status_info :
                ~parse_dpd_status_date(nm_raw.items[i].status_info[k].f_ts).none
    /\ (nm_carrier = s_dpd /\ normalize_dpd_plc_json(nm_raw, AskedNumber, nm_clock).exc # "none")
          => \A k \in DOMAIN find_first_events_list(nm_raw) :
                ~coerce_timestamp(find_first_events_list(nm_raw)[k]).none

\* C13, amended: when the adapter reads the timestamp of every event of the
\* body, the second normalization gives what the first gave, the same
\* TrackingResponse or the same exception.
C13_EqualWhenTimestampsRead ==
    (nm_pc = "again" /\ nm_carrier # s_ecoscooting /\ EveryTimestampRead)
    => nm_again = nm_result

C13_Witness ==
    /\ nm_pc = "again"
    /\ nm_carrier = s_ctt
    /\ EveryTimestampRead
    /\ nm_clock2[1] # nm_clock[1]
    /\ ~NmRaised(nm_again)
    /\ Len(nm_again.resp.shipments) = 1
    /\ Len(nm_again.resp.shipments[1].events) = 2
    /\ nm_again = nm_result

-----------------------------------------------------------------------------
(* Claims about the classification of a shipment                           *)

\* the code table of the CTT scenario
CttCodeTable ==
    { <<<<"0","0","0","0">>, "information_received">>, <<<<"1","0","0","0">>, "in_transit">>,
      <<<<"1","5","0","0">>, "out_for_delivery">>, <<<<"2","3","1","0">>, "available_for_pickup">> }

\* the events out are the raw events in, rearranged
CttEventsOf(out, raw) ==
    /\ Len(out) = Len(raw)
    /\ \E p \in [DOMAIN out -> DOMAIN raw] :
          /\ \A i, j \in DOMAIN out : p[i] = p[j] => i = j
          /\ \A i \in DOMAIN out :
                /\ out[i].status_code = raw[p[i]].f_code
                /\ out[i].status = Or(raw[p[i]].f_text, Or(raw[p[i]].f_text2, <<>>))

GlsTable ==
    { <<<<"P","R","E","A","D","V","I","C","E">>, "information_received">>, <<<<"P","L","A","N","N","E","D","P","I","C","K","U","P">>, "information_received">>,
      <<<<"I","N","P","I","C","K","U","P">>, "information_received">>, <<<<"I","N","T","R","A","N","S","I","T">>, "in_transit">>,
      <<<<"I","N","W","A","R","E","H","O","U","S","E">>, "in_transit">>, <<<<"I","N","D","E","L","I","V","E","R","Y">>, "out_for_delivery">>,
      <<<<"D","E","L","I","V","E","R","E","D">>, "delivered">>, <<<<"D","E","L","I","V","E","R","E","D","P","S">>, "delivered">>,
      <<<<"N","O","T","P","I","C","K","E","D","U","P">>, "exception">>, <<<<"N","O","T","D","E","L","I","V","E","R","E","D">>, "exception">>,
      <<<<"C","A","N","C","E","L","E","D">>, "cancelled">> }

\* the parcels of a body that carry a unitno, in the order of the body
RECURSIVE WithUnitno(_)
WithUnitno(parcels) ==
    IF parcels = <<>> THEN <<>>
    ELSE IF Truthy(Head(parcels).id) THEN <<Head(parcels)>> \o WithUnitno(Tail(parcels))
    ELSE WithUnitno(Tail(parcels))

\* C15: normalize_gls_parcels_response returns one Shipment per parcel that
\* carries a unitno, in the order of the body, each with the status the GLS
\* table gives for the parcel's own status field; a status outside the table,
\* or none, does not make the call raise.
C15_GlsOneShipmentPerParcel ==
    (nm_pc = "done" /\ nm_carrier = s_gls /\ nm_raw.container = "present")
    => /\ (\A i \in DOMAIN nm_raw.items : Len(EventsOrEmpty(nm_raw.items[i])) <= 1)
             => ~NmRaised(nm_result)
       /\ ~NmRaised(nm_result)
             => /\ Len(nm_result.resp.shipments) = Len(WithUnitno(nm_raw.items))
                /\ \A i \in DOMAIN nm_result.resp.shipments :
                      /\ nm_result.resp.shipments[i].tracking_number = WithUnitno(nm_raw.items)[i].id
                      /\ \A row \in GlsTable :
                            WithUnitno(nm_raw.items)[i].status = row[1]
                            => nm_result.resp.shipments[i].status = row[2]

\* two parcels under one reference: a parcel-shop delivery and a pre-advice
C15_Witness ==
    /\ nm_pc = "done"
    /\ nm_carrier = s_gls
    /\ nm_raw.container = "present"
    /\ Len(nm_raw.items) = 2
    /\ nm_raw.items[1].status = <<"D","E","L","I","V","E","R","E","D","P","S">>
    /\ nm_raw.items[2].status = <<"P","R","E","A","D","V","I","C","E">>
    /\ ~NmRaised(nm_result)
    /\ Len(nm_result.resp.shipments) = 2
    /\ nm_result.resp.shipments[1].status = "delivered"
    /\ nm_result.resp.shipments[2].status = "information_received"

\* a parcel whose status the table does not list is classified unknown
GlsUnlistedStatusIsUnknown ==
    (nm_pc = "done" /\ nm_carrier = s_gls /\ ~NmRaised(nm_result))
    => \A i \in DOMAIN nm_result.resp.shipments :
          WithUnitno(nm_raw.items)[i].status \in { <<"R","E","T","U","R","N","E","D">>, <<"F","I","N","A","L">>, None }
          => nm_result.resp.shipments[i].status = "unknown"

\* the out-for-delivery phrases of the claim
OutForDeliveryPhrases ==
    { <<"o","u","t"," ","f","o","r"," ","d","e","l","i","v","e","r","y">>, <<"i","n"," ","d","e","l","i","v","e","r","y">>, <<"d","e","l","i","v","e","r","y"," ","v","e","h","i","c","l","e">>,
      <<"l","o","a","d","e","d"," ","o","n","t","o"," ","t","h","e"," ","d","e","l","i","v","e","r","y"," ","v","e","h","i","c","l","e">> }

\* the class of the DHL status code that decides: the shipment's, else the latest event's
DhlCodeClass(st_code, latest) ==
    IF map_utapi_status_code(Strip(OrEmpty(st_code))) # "unknown"
    THEN map_utapi_status_code(Strip(OrEmpty(st_code)))
    ELSE map_utapi_status_code(latest.status_code)

\* C16 for one shipment with its latest event
DhlUpgradeHolds(st_code, latest, status) ==
    /\ (/\ DhlCodeClass(st_code, latest) = "in_transit"
        /\ \/ ContainsAny(Lower(OrEmpty(latest.status)), OutForDeliveryPhrases)
           \/ ContainsAny(Lower(OrEmpty(latest.details)), OutForDeliveryPhrases))
       => status = "out_for_delivery"
    /\ DhlCodeClass(st_code, latest) \in {"delivered", "exception", "information_received"}
       => status = DhlCodeClass(st_code, latest)

\* C16: for DHL, when the status code (the shipment's, else the latest
\* event's) maps to in_transit and the status text or the details of the latest
\* event contain an out-for-delivery phrase, the shipment status is
\* out_for_delivery; a code that maps to delivered, exception or
\* information_received is kept whatever the text says.
C16_DhlOutForDeliveryUpgrade ==
    (nm_pc = "done" /\ nm_carrier = s_dhl /\ nm_raw.container = "present"
        /\ ~NmRaised(nm_result) /\ nm_result.resp.shipments # <<>>
        /\ nm_result.resp.shipments[1].events # <<>>)
    => DhlUpgradeHolds(nm_raw.items[1].status,
                       nm_result.resp.shipments[1].events[Len(nm_result.resp.shipments[1].events)],
                       nm_result.resp.shipments[1].status)

\* what does hold: the phrase is looked for in the details, and in the status
\* text only when the event has no details
DhlUpgradeFromDetailsElseStatus ==
    (nm_pc = "done" /\ nm_carrier = s_dhl /\ nm_raw.container = "present"
        /\ ~NmRaised(nm_result) /\ nm_result.resp.shipments # <<>>
        /\ nm_result.resp.shipments[1].events # <<>>
        /\ Truthy(nm_result.resp.shipments[1].events[Len(nm_result.resp.shipments[1].events)].details)
        /\ ~ContainsAny(Lower(nm_result.resp.shipments[1].events[
                                  Len(nm_result.resp.shipments[1].events)].details),
                        OutForDeliveryPhrases))
    => nm_result.resp.shipments[1].status # "out_for_delivery"

\* the keyword table of the specification: keyword, class
SpecKeywordTable ==
    { <<<<"e","n","t","r","e","g","a","d","o">>, "delivered">>, <<<<"d","e","l","i","v","e","r","e","d">>, "delivered">>,
      <<<<"r","e","p","a","r","t","o">>, "out_for_delivery">>, <<<<"o","u","t"," ","f","o","r"," ","d","e","l","i","v","e","r","y">>, "out_for_delivery">>,
      <<<<"t","r","a","n","s","i","t","o">>, "in_transit">>, <<<<"i","n"," ","t","r","a","n","s","i","t">>, "in_transit">>,
      <<<<"a","d","m","i","t","i","d","o">>, "information_received">>, <<<<"i","n","f","o","r","m","a","t","i","o","n"," ","r","e","c","e","i","v","e","d">>, "information_received">>,
      <<<<"p","a","r","a"," ","r","e","c","o","g","e","r">>, "available_for_pickup">>, <<<<"a","v","a","i","l","a","b","l","e"," ","f","o","r"," ","p","i","c","k","u","p">>, "available_for_pickup">> }

\* the text holds a keyword of the table
HasSpecKeyword(text) ==
    \E row \in SpecKeywordTable : Contains(Lower(OrEmpty(text)), row[1])

\* the carrier-native code of a shipment is absent or not in the carrier's table
CodeNotInTable(carrier, parcel, latest) ==
    CASE carrier = s_dhl ->
            /\ map_utapi_status_code(Strip(OrEmpty(parcel.status))) = "unknown"
            /\ map_utapi_status_code(OrEmpty(latest.status_code)) = "unknown"
      [] carrier = s_gls ->
            \A row \in GlsTable : Upper(OrEmpty(parcel.status)) # row[1]
      [] carrier = s_ctt ->
            \A row \in CttCodeTable : Strip(OrEmpty(latest.status_code)) # row[1]

\* C17 for the k-th shipment of a response
TextFallbackHolds(carrier, parcel, sh) ==
    (/\ sh.events # <<>>
     /\ CodeNotInTable(carrier, parcel, sh.events[Len(sh.events)])
     /\ HasSpecKeyword(sh.events[Len(sh.events)].status))
    => sh.status # "unknown"

\* C17: for DHL, GLS and CTT, when the carrier's code is absent or not in
\* the carrier's table, the classification does not raise and the status comes
\* from the keywords in the text of the latest event: it is unknown only when
\* that text holds no keyword.
C17_CodeMissFallsBackToText ==
    (nm_pc = "done" /\ nm_carrier \in {s_dhl, s_gls, s_ctt} /\ nm_raw.container = "present")
    => /\ nm_result.exc \in {"none", "TypeError"}
       /\ ~NmRaised(nm_result)
          => \A k \in DOMAIN nm_result.resp.shipments :
                TextFallbackHolds(nm_carrier,
                                  IF nm_carrier = s_gls THEN WithUnitno(nm_raw.items)[k]
                                  ELSE nm_raw.items[1],
                                  nm_result.resp.shipments[k])

\* what does hold: DHL and CTT fall back to the text of the latest event
DhlCttFallBackToText ==
    (nm_pc = "done" /\ nm_carrier \in {s_dhl, s_ctt} /\ nm_raw.container = "present"
        /\ ~NmRaised(nm_result))
    => \A k \in DOMAIN nm_result.resp.shipments :
          TextFallbackHolds(nm_carrier, nm_raw.items[1], nm_result.resp.shipments[k])

\* and GLS never reads the text: without a listed status the parcel is unknown
GlsNeverReadsText ==
    (nm_pc = "done" /\ nm_carrier = s_gls /\ nm_raw.container = "present"
        /\ ~NmRaised(nm_result))
    => \A k \in DOMAIN nm_result.resp.shipments :
          CodeNotInTable(s_gls, WithUnitno(nm_raw.items)[k], nm_result.resp.shipments[k])
          => nm_result.resp.shipments[k].status = "unknown"

-----------------------------------------------------------------------------
(* Claims about the text classifiers                                       *)

\* texts that hold no keyword of any classifier
NoKeywordTexts == { <<"S","i","n"," ","n","o","v","e","d","a","d">>, <<"L","a","b","e","l"," ","p","r","i","n","t","e","d">>, <<>> }

\* the rows of the specification's keyword table that the text matches
MatchedRows(text) == { row \in SpecKeywordTable : Contains(Lower(text), row[1]) }

\* C18: in map_status_from_text, _infer_correos_status and the text branch
\* of _infer_ctt_status, a text that contains a keyword of the specification's
\* table is given the class of that keyword (entregado/delivered: delivered,
\* reparto/out for delivery: out_for_delivery, transito/in transit: in_transit,
\* admitido/information received: information_received, para recoger/available
\* for pickup: available_for_pickup), and a text without any keyword is unknown.
C18_KeywordTableFollowed ==
    tx_pc = "done"
    => /\ \A row \in MatchedRows(tx_text) : tx_result = row[2]
       /\ tx_text \in NoKeywordTexts => tx_result = "unknown"

\* what does hold in all three classifiers: the rows for delivered,
\* out_for_delivery and in_transit and the keyword admitido, and unknown for a
\* text without keywords
KeywordRowsAllClassifiersShare ==
    tx_pc = "done"
    => /\ \A row \in MatchedRows(tx_text) :
             (row[2] \in {"delivered", "out_for_delivery", "in_transit"} \/ row[1] = <<"a","d","m","i","t","i","d","o">>)
             => tx_result = row[2]
       /\ tx_text \in NoKeywordTexts => tx_result = "unknown"

\* C19: in map_status_from_text, _infer_correos_status and
\* _infer_ctt_status, two status texts that differ only in letter case or in
\* diacritics (such as 'En tránsito' and 'en transito') are given the same
\* ShipmentStatus.
C19_CaseAndAccentInsensitive ==
    tx_pc = "variant" => tx_result2 = tx_result

\* what does hold: the letter case never matters, and in the keyword branch of
\* _infer_ctt_status the accents do not either
CaseInsensitiveEverywhere ==
    (tx_pc = "variant" /\ Lower(tx_text2) = Lower(tx_text)) => tx_result2 = tx_result

CttAccentInsensitive ==
    (tx_pc = "variant" /\ tx_fn = "_infer_ctt_status") => tx_result2 = tx_result

\* the available-for-pickup phrases of the claim
PickupPhrases ==
    { <<"a","v","a","i","l","a","b","l","e"," ","f","o","r"," ","p","i","c","k","u","p">>, <<"r","e","a","d","y"," ","f","o","r"," ","p","i","c","k","u","p">>, <<"p","a","r","a"," ","r","e","c","o","g","e","r">>, <<"p","i","c","k","u","p"," ","p","o","i","n","t">>,
      <<"c","o","l","l","e","c","t","i","o","n"," ","p","o","i","n","t">> }

\* C20: map_status_from_text tests the available-for-pickup phrases before
\* the generic 'pickup': a text that contains 'available for pickup', 'ready
\* for pickup', 'para recoger', 'pickup point' or 'collection point' is
\* classified available_for_pickup, never information_received.
C20_PickupPhrasesFirst ==
    /\ (tx_pc \in {"done", "variant"} /\ tx_fn = "map_status_from_text"
            /\ ContainsAny(Lower(tx_text), PickupPhrases))
       => tx_result = "available_for_pickup"
    /\ (tx_pc = "variant" /\ tx_fn = "map_status_from_text"
            /\ ContainsAny(Lower(tx_text2), PickupPhrases))
       => tx_result2 = "available_for_pickup"

\* 'Ready for pickup' holds the generic 'pickup' too and is available_for_pickup
C20_Witness ==
    /\ tx_pc = "done"
    /\ tx_fn = "map_status_from_text"
    /\ tx_text = <<"R","e","a","d","y"," ","f","o","r"," ","p","i","c","k","u","p">>
    /\ Contains(Lower(tx_text), <<"p","i","c","k","u","p">>)
    /\ tx_result = "available_for_pickup"

-----------------------------------------------------------------------------
(* Claims about bodies with parts missing                                  *)

\* the adapters with a normalize function of their own
NormalizeFunctionCarriers == {s_correos, s_ctt, s_dhl, s_gls}

\* the events key of every shipment of the body is in one of the given states
EventsKeyIs(kinds) ==
    /\ nm_raw.container = "present"
    /\ \A k \in DOMAIN nm_raw.items : nm_raw.items[k].events_kind \in kinds

\* C21: a body whose optional substructure (here the events of a shipment:
\* Correos 'events', CTT 'shipping_history', DHL 'events', GLS 'events') is
\* absent or null is normalized without raising, and the shipment comes out
\* without events.
C21_AbsentOrNullIsNotAnError ==
    (nm_pc = "done" /\ nm_carrier \in NormalizeFunctionCarriers
        /\ EventsKeyIs({"missing", "null"}))
    => /\ ~NmRaised(nm_result)
       /\ \A k \in DOMAIN nm_result.resp.shipments : nm_result.resp.shipments[k].events = <<>>

\* what does hold: an absent key is never an error, and a null is none for
\* CTT and GLS, which read the key with `or`
AbsentEventsIsNotAnError ==
    (nm_pc = "done" /\ nm_carrier \in NormalizeFunctionCarriers
        /\ (EventsKeyIs({"missing"}) \/ (nm_carrier \in {s_ctt, s_gls} /\ EventsKeyIs({"missing", "null"}))))
    => /\ ~NmRaised(nm_result)
       /\ \A k \in DOMAIN nm_result.resp.shipments : nm_result.resp.shipments[k].events = <<>>

\* and Correos and DHL iterate a null: TypeError
NullEventsRaiseInCorreosAndDhl ==
    (nm_pc = "done" /\ nm_carrier \in {s_correos, s_dhl} /\ EventsKeyIs({"null"}))
    => nm_result.exc = "TypeError"

-----------------------------------------------------------------------------
(* Claims about track and track_async                                      *)

\* the invocation returned or raised
Finished(inv) == inv.pc \in {"returned", "raised"}

\* the answers an invocation received, and the requests it issued, in order
AnswersOf(inv) == [i \in DOMAIN inv.log |-> inv.log[i].got]
RequestsOf(inv) == [i \in DOMAIN inv.log |-> inv.log[i].req]

\* a is the beginning of b
IsPrefix(a, b) == Len(a) <= Len(b) /\ SubSeq(b, 1, Len(a)) = a

\* a and b are the synchronous and an asynchronous call of the same adapter,
\* both over, and the carrier answered the two the same way
SyncAsyncPair(a, b) ==
    /\ Finished(a) /\ Finished(b)
    /\ a.carrier = b.carrier
    /\ a.variant = "sync" /\ b.variant # "sync"
    /\ (IsPrefix(AnswersOf(a), AnswersOf(b)) \/ IsPrefix(AnswersOf(b), AnswersOf(a)))

\* C22: the synchronous and the asynchronous variant of an adapter (and of
\* the transport they call), given the same arguments, environment and carrier
\* answers, issue the same requests and then return equal responses or raise
\* the same error.
C22_SyncAsyncSameContract ==
    \A p, q \in Procs :
        SyncAsyncPair(tk_inv[p], tk_inv[q])
        => /\ RequestsOf(tk_inv[p]) = RequestsOf(tk_inv[q])
           /\ tk_inv[p].result = tk_inv[q].result

\* what does hold: the five registered adapters, and with them
\* get_with_retries and async_get_with_retries, agree
RegisteredAdaptersSyncAsyncAgree ==
    \A p, q \in Procs :
        (SyncAsyncPair(tk_inv[p], tk_inv[q]) /\ tk_inv[p].carrier \in Carriers)
        => /\ RequestsOf(tk_inv[p]) = RequestsOf(tk_inv[q])
           /\ tk_inv[p].result = tk_inv[q].result

\* C23: on the asynchronous path without a client of the caller, every client
\* the call opened is closed once the call has returned or raised, and while it
\* sleeps between attempts; the client the caller supplied is never closed.
C23_AsyncClientsClosed ==
    /\ \A p \in Procs :
           (tk_inv[p].variant = "async" /\ (Finished(tk_inv[p]) \/ tk_inv[p].pc = "sleep"))
           => tk_inv[p].open = 0
    /\ \A p \in Procs :
           (tk_inv[p].variant = "async_client" /\ tk_inv[p].pc # "idle") => tk_client_open

\* an asynchronous call that opened three clients and raised the transport
\* error of the last attempt, next to a call with the caller's client that
\* raised on an error status
C23_Witness ==
    \E p, q \in Procs :
        /\ tk_inv[p].variant = "async" /\ tk_inv[p].pc = "raised"
        /\ tk_inv[p].result.exc = "ConnectError" /\ Len(tk_inv[p].log) = 3
        /\ tk_inv[q].variant = "async_client" /\ tk_inv[q].pc = "raised"
        /\ tk_inv[q].result.exc = "HTTPStatusError" /\ Len(tk_inv[q].log) >= 1

\* C24: in every call of gls.track / gls.track_async that has its credentials
\* the first request is the token request of that call (no token is carried
\* from one call to another), the tracking GET comes second and only after the
\* token endpoint returned an access_token; when the token request fails or
\* brings no access_token the call raises and no tracking GET is issued.
C24_GlsTokenBeforeTracking ==
    \A p \in Procs :
        LET inv == tk_inv[p] IN
        (inv.carrier = s_gls /\ inv.pc \notin {"idle", "start"} /\ ~CredentialMissing(s_gls, tk_env))
        => /\ Len(inv.log) >= 1 /\ inv.log[1].req = "token"
           /\ \A i \in DOMAIN inv.log :
                  inv.log[i].req = "track" => (i = 2 /\ inv.log[1].got = "access_token")
           /\ (inv.log[1].got \notin {"pending", "access_token"})
              => (inv.pc = "raised" /\ Len(inv.log) = 1)

\* two GLS calls side by side: one got its token and the answer to its GET,
\* the other, started while the first held a token, asked for a token of its
\* own, got a body without access_token and raised
C24_Witness ==
    \E p, q \in Procs :
        /\ tk_inv[p].carrier = s_gls /\ tk_inv[p].pc = "returned"
        /\ RequestsOf(tk_inv[p]) = <<"token", "track">>
        /\ tk_inv[q].carrier = s_gls /\ tk_inv[q].pc = "raised"
        /\ Len(tk_inv[q].log) = 1 /\ tk_inv[q].log[1] = Request("token", "no_access_token")
        /\ tk_inv[q].result.exc = "RuntimeError"

\* C27: in dhl.track / track_async and gls.track / track_async a credential
\* variable that is unset or empty makes the call raise at once: no token
\* request and no tracking request is issued by that call.
C27_MissingCredentialBeforeAnyRequest ==
    \A p \in Procs :
        LET inv == tk_inv[p]
            missing == IF inv.carrier = s_dhl THEN {tk_env.DHL_API_KEY}
                       ELSE IF inv.carrier = s_gls
                       THEN {tk_env.GLS_CLIENT_ID, tk_env.GLS_CLIENT_SECRET}
                       ELSE {}
        IN  (missing \cap {None, <<>>} # {} /\ inv.pc \notin {"idle", "start"})
            => /\ inv.pc = "raised" /\ inv.result.exc = "RuntimeError"
               /\ inv.log = <<>> /\ inv.open = 0

\* GLS_CLIENT_SECRET is empty: gls.track_async has raised without a request
\* while a Correos call next to it got its answer
C27_Witness ==
    /\ tk_env.GLS_CLIENT_SECRET = <<>>
    /\ \E p, q \in Procs :
           /\ tk_inv[p].carrier = s_gls /\ tk_inv[p].variant = "async"
           /\ tk_inv[p].pc = "raised" /\ tk_inv[p].log = <<>>
           /\ tk_inv[q].carrier = s_correos /\ tk_inv[q].pc = "returned"

\* the call run alone, from its first statement, on the answers given in order
RECURSIVE RunAlone(_, _, _)
RunAlone(inv, env, answers) ==
    IF Finished(inv) THEN inv
    ELSE IF inv.pc = "start" THEN RunAlone(track_start(inv, env), env, answers)
    ELSE IF inv.pc = "sleep" THEN RunAlone(wake_up(inv), env, answers)
    ELSE IF inv.pc = "loop" THEN RunAlone(send_request(inv), env, answers)
    ELSE IF answers = <<>> THEN inv
    ELSE IF inv.pc = "token"
    THEN RunAlone(get_oauth_token(inv, Head(answers)), env, Tail(answers))
    ELSE RunAlone(receive_answer(inv, Head(answers)), env, Tail(answers))

\* C25: calls in flight together are independent: whatever the interleaving
\* of two calls (same or different carrier, own clients or the caller's shared
\* client), each ends with the result, the attempt count and the requests it
\* has when run alone on the answers it received.
C25_ConcurrentCallsIndependent ==
    \A p \in Procs :
        Finished(tk_inv[p])
        => tk_inv[p] = RunAlone(Invocation(tk_inv[p].carrier, tk_inv[p].variant),
                                tk_env, AnswersOf(tk_inv[p]))

\* two calls of dhl.track_async on the caller's one client, both over: one
\* was retried after a 503 and returned, the other raised on a 404
C25_Witness ==
    /\ tk_inv[1].carrier = s_dhl /\ tk_inv[1].variant = "async_client"
    /\ tk_inv[2].carrier = s_dhl /\ tk_inv[2].variant = "async_client"
    /\ tk_inv[1].pc = "returned" /\ tk_inv[1].attempt = 2
    /\ tk_inv[2].pc = "raised" /\ tk_inv[2].attempt = 1
    /\ tk_inv[2].result.exc = "HTTPStatusError"

\* a step of one call leaves the other call as it was
OneCallPerStep ==
    [][\A p \in Procs : tk_inv'[p] # tk_inv[p]
                         => \A q \in Procs \ {p} : tk_inv'[q] = tk_inv[q]]_vars

\* the answers to the tracking requests of a call, the token request left out
TrackingAnswersOf(inv) ==
    LET IsTrack(r) == r.req = "track"
        sent == SelectSeq(inv.log, IsTrack)
    IN  [i \in DOMAIN sent |-> sent[i].got]

\* the call got a transient 503 and then a 200 to its tracking request, and
\* returned what the 200 brought
RetriedAndServed(inv) ==
    /\ TrackingAnswersOf(inv) = <<GotStatus(503, TRUE), GotStatus(200, FALSE)>>
    /\ inv.pc = "returned" /\ inv.result.served = 2

\* C29: every registered adapter sends its tracking request through the retry
\* policy: a call whose first tracking request is answered with a transient
\* 5xx sends the request again, and when a 200 follows it returns the response
\* of the 200 instead of raising the 5xx.
C29_EveryAdapterRetriesTransient5xx ==
    \A p \in Procs :
        LET inv == tk_inv[p]
            got == TrackingAnswersOf(inv) IN
        (inv.carrier \in Carriers /\ Finished(inv) /\ Len(got) >= 1
            /\ got[1] = GotStatus(503, TRUE))
        => /\ Len(got) >= 2
           /\ got[2] = GotStatus(200, FALSE) => RetriedAndServed(inv)

\* what does hold: correos, ctt, dhl and dpd retry the transient 5xx
AdaptersOnTheTransportRetry ==
    \A p \in Procs :
        LET inv == tk_inv[p]
            got == TrackingAnswersOf(inv) IN
        (UsesRetries(inv.carrier) /\ Finished(inv) /\ Len(got) >= 1
            /\ got[1] = GotStatus(503, TRUE))
        => /\ Len(got) >= 2
           /\ got[2] = GotStatus(200, FALSE) => RetriedAndServed(inv)

\* gls.track and gls.track_async raise on the first 5xx
GlsRaisesOnFirst5xx ==
    \A p \in Procs :
        LET inv == tk_inv[p]
            got == TrackingAnswersOf(inv) IN
        (inv.carrier = s_gls /\ Finished(inv) /\ Len(got) >= 1 /\ got[1] = GotStatus(503, TRUE))
        => (Len(got) = 1 /\ inv.pc = "raised" /\ inv.result.exc = "HTTPStatusError")

-----------------------------------------------------------------------------
(* Claims about dpd.track                                                   *)

DpdHtmlAnswerSeen ==
    nm_pc = "done" /\ nm_carrier = s_dpd /\ ~nm_raw.json /\ nm_result.resp.shipments = <<>>

-----------------------------------------------------------------------------
(* Claims about correos._parse_correos_datetime                             *)

\* "%d/%m/%Y %H:%M:%S", the format of a Correos event as the carrier sends it
Fmt_dmY_slash_HMS == Fmt_dmY_slash \o <<Ws>> \o Fmt_HMS

\* a valid date written DD/MM/YYYY, a valid time written HH:MM:SS or HH:MM
IsDDMMYYYY(s) == Truthy(s) /\ Len(s) = 10 /\ ~PRaised(Strptime(s, Fmt_dmY_slash))
IsHHMMSS(s) == Truthy(s) /\ Len(s) = 8 /\ ~PRaised(Strptime(s, Fmt_HMS))
IsHHMM(s) == Truthy(s) /\ Len(s) = 5 /\ ~PRaised(Strptime(s, Fmt_HM))

CorreosParsed == ps_pc = "done" /\ ps_fn = "_parse_correos_datetime"

\* C28: for Correos a valid DD/MM/YYYY date with a valid HH:MM:SS time gives
\* exactly that date and time; a valid date without a time gives that date at
\* midnight; the time of the call is returned only when the date is missing or
\* malformed.
C28_CorreosDateAndTimeKept ==
    CorreosParsed
    => /\ (IsDDMMYYYY(ps_arg) /\ IsHHMMSS(ps_arg2))
          => ps_result = Strptime(ps_arg \o <<" ">> \o ps_arg2, Fmt_dmY_slash_HMS)
       /\ (IsDDMMYYYY(ps_arg) /\ ~Truthy(ps_arg2))
          => ps_result = Strptime(ps_arg, Fmt_dmY_slash)
       /\ (ps_result = PRet(NowNaive(ps_clock)) /\ (~Truthy(ps_arg2) \/ IsHHMMSS(ps_arg2)))
          => ~IsDDMMYYYY(ps_arg)

\* what does hold: a time written HH:MM is kept, and the date alone gives
\* midnight
CorreosHourAndMinuteKept ==
    CorreosParsed
    => /\ (IsDDMMYYYY(ps_arg) /\ IsHHMM(ps_arg2))
          => ps_result = Strptime(ps_arg \o <<" ">> \o ps_arg2, Fmt_dmY_slash_HM)
       /\ (IsDDMMYYYY(ps_arg) /\ ~Truthy(ps_arg2))
          => ps_result = Strptime(ps_arg, Fmt_dmY_slash)

\* what does hold: with a time written HH:MM:SS the time of the call is returned
CorreosSecondsGiveNow ==
    (CorreosParsed /\ IsDDMMYYYY(ps_arg) /\ IsHHMMSS(ps_arg2))
    => ps_result = PRet(NowNaive(ps_clock))

====
